---- MODULE Spec2Model ----
(***************************************************************************)
(* Queue / inventory simulation teaching tool.                             *)
(*                                                                         *)
(* Probabilities are held in thousandths (0.25 is 250), so that the sums,  *)
(* the tolerance test and Math.round(cumulative * scale) are exact integer *)
(* arithmetic.  A value that may be null in the source is a sequence of    *)
(* length 0 (null) or 1 (the value).                                       *)
(*                                                                         *)
(* Each page of the application is one variable holding the component's    *)
(* state, and the call of its runSimulation handler in progress is a       *)
(* second variable holding the handler's locals: pc is "idle" before the   *)
(* Run button is clicked, "loop" inside the loop and "returned" once the   *)
(* handler has returned.  A page that is not mounted is Unmounted.  Every  *)
(* page has its own specification, which follows one click of Run; the     *)
(* calls of the generators and of the statistical tests are held in rng    *)
(* and test, and earlier holds what a first run returned while the same    *)
(* run is made a second time.                                              *)
(***************************************************************************)
EXTENDS Integers, Sequences, FiniteSets, TLC

VARIABLES tb, ss, ssRun, ms, msRun, inv, invRun, rng, test, earlier

vars == <<tb, ss, ssRun, ms, msRun, inv, invRun, rng, test, earlier>>

Unmounted == <<>>

(***************************************************************************)
(* Bounds of the model.                                                    *)
(***************************************************************************)
MaxRows == 3
MaxCount == 3
MaxCycles == 2
MaxDays == 2
\* the whole numbers of the model are below HalfBase
HalfBase == 1000
\* the largest count asked of a generator
MaxGen == 10
\* the longest list handed to normalizeValues
MaxValues == 2
\* the longest list of numbers handed to calculateChiSquare
MaxChiNumbers == 2
\* the longest list of numbers handed to calculateDependency
MaxDepNumbers == 4

(***************************************************************************)
(* JavaScript helpers.                                                     *)
(***************************************************************************)
Null == <<>>
Some(v) == <<v>>
IsNull(x) == x = <<>>
Val(x) == x[1]

Max(a, b) == IF a >= b THEN a ELSE b
Min(a, b) == IF a <= b THEN a ELSE b
Abs(a) == IF a < 0 THEN 0 - a ELSE a

\* Math.round(p * scale) for p in thousandths: floor(x + 0.5)
RoundScaled(p, scale) == (p * scale + 500) \div 1000

RECURSIVE SumProb(_, _)
SumProb(dist, n) == IF n = 0 THEN 0 ELSE SumProb(dist, n - 1) + dist[n].probability

(***************************************************************************)
(* buildCumulative and mapRandomToValue                                    *)
(***************************************************************************)
tolerance == 1

NoError == "none"

\* rangeEnd of row n: Math.min(scale, Math.round(row.cumulative * scale))
RangeEnds(dist, scale, n) == Min(scale, RoundScaled(SumProb(dist, n), scale))

CumulativeRowAt(dist, scale, idx) ==
    LET previousEnd == IF idx = 1 THEN 0 ELSE RangeEnds(dist, scale, idx - 1)
    IN  [value |-> dist[idx].value,
         probability |-> dist[idx].probability,
         cumulative |-> SumProb(dist, idx),
         rangeStart |-> previousEnd + 1,
         rangeEnd |-> RangeEnds(dist, scale, idx)]

\* the test without Math.abs
SumOutOfTolerance_NoAbs(sum, roundedAway) == sum - 1000 > tolerance

\* Math.abs(sum - 1) > tolerance.  The sum the program holds is a binary
\* floating-point number, and so is 0.001; where the typed decimals add up
\* to 0.999 or 1.001 the sum held lies a rounding error to one side of the
\* bound: 0.25 + 0.35 + 0.399 is held as a sum with |sum - 1| =
\* 0.0010000000000000009, beyond the bound, and 0.3 + 0.5 + 0.199 as one
\* with |sum - 1| = 0.0009999999999998899, within it.  sum is the sum of
\* the typed decimals in thousandths, and roundedAway says that the sum
\* held lies on the far side of it from 1.
SumOutOfTolerance(sum, roundedAway) ==
    Abs(sum - 1000) > tolerance \/ (Abs(sum - 1000) = tolerance /\ roundedAway)

buildCumulativeRounded(dist, scale, roundedAway) ==
    IF Len(dist) = 0
    THEN [rows |-> <<>>, error |-> "Add at least one row"]
    ELSE IF SumOutOfTolerance(SumProb(dist, Len(dist)), roundedAway)
    THEN [rows |-> <<>>, error |-> "Probabilities must sum to 1"]
    ELSE [rows |-> [idx \in 1..Len(dist) |-> CumulativeRowAt(dist, scale, idx)],
          error |-> NoError]

\* buildCumulative on a distribution whose probabilities do not put
\* |sum - 1| at exactly 0.001 (the distributions of the simulator pages
\* below are such)
buildCumulative(dist, scale) == buildCumulativeRounded(dist, scale, FALSE)

\* The numbers typed into a digit field need not be whole ("50.5" is kept by
\* Number and by the filters of parseDigits).  A whole number n is kept as
\* n, the number n + 1/2 as HalfBase + n; whole numbers of the model are
\* below HalfBase.
Half(n) == HalfBase + n
Floor(d) == IF d >= HalfBase THEN d - HalfBase ELSE d
Ceil(d) == IF d >= HalfBase THEN d - HalfBase + 1 ELSE d
IsWhole(d) == d < HalfBase

\* ranges.find(...): the index of the first row whose range holds the
\* normalized draw, 0 when there is none
RECURSIVE FindRow(_, _, _)
FindRow(ranges, normalized, i) ==
    IF i > Len(ranges) THEN 0
    ELSE IF Floor(normalized) >= ranges[i].rangeStart /\ Ceil(normalized) <= ranges[i].rangeEnd
    THEN i
    ELSE FindRow(ranges, normalized, i + 1)

\* the mapper without the "0 is the top of the range" rule
mapRandomToValue_NoZeroRule(rand, ranges, scale) ==
    LET i == FindRow(ranges, rand, 1)
    IN  IF i = 0 THEN Null ELSE Some(ranges[i].value)

\* the mapper clamping a draw outside every range to the last row
mapRandomToValue_Clamped(rand, ranges, scale) ==
    LET normalized == IF rand = 0 THEN scale ELSE rand
        i == FindRow(ranges, normalized, 1)
    IN  IF i = 0 THEN Some(ranges[Len(ranges)].value) ELSE Some(ranges[i].value)

mapRandomToValue(rand, ranges, scale) ==
    LET normalized == IF rand = 0 THEN scale ELSE rand
        i == FindRow(ranges, normalized, 1)
    IN  IF i = 0 THEN Null ELSE Some(ranges[i].value)

(***************************************************************************)
(* The table functions applied to bounded inputs.                          *)
(***************************************************************************)
ProbSet == {-300, 0, 45, 250, 499, 500, 501, 800, 1000}
Scales == {10, 100}

\* distributions of n rows; the value of a row tells the rows apart
DistsOfLen(n) ==
    {[i \in 1..n |-> [value |-> i, probability |-> p[i]]] : p \in [1..n -> ProbSet]}

TableDists == UNION {DistsOfLen(n) : n \in 0..MaxRows}

InitTable ==
    /\ tb \in {[pc |-> "input", dist |-> d, scale |-> s, rows |-> <<>>,
                error |-> NoError, roundedAway |-> FALSE, rand |-> 0, mapped |-> Null] :
               d \in TableDists, s \in Scales}
    /\ ss = Unmounted /\ ssRun = Unmounted
    /\ ms = Unmounted /\ msRun = Unmounted
    /\ inv = Unmounted /\ invRun = Unmounted
    /\ rng = Unmounted
    /\ test = Unmounted /\ earlier = Unmounted

\* the draws: 0..scale, and numbers outside it or not whole
TableDraws(scale) == (-1)..(scale + 1) \cup {Half(5)}

\* the side of the typed sum on which the sum held may lie: either, but it
\* is told apart only next to the bound
RoundingSides(sum) == IF Abs(sum - 1000) = tolerance THEN BOOLEAN ELSE {FALSE}

BuildCumulative ==
    /\ tb.pc = "input"
    /\ \E roundedAway \in RoundingSides(SumProb(tb.dist, Len(tb.dist))) :
         LET res == buildCumulativeRounded(tb.dist, tb.scale, roundedAway)
         IN  tb' = [tb EXCEPT !.pc = "built", !.rows = res.rows, !.error = res.error,
                              !.roundedAway = roundedAway]
    /\ UNCHANGED <<ss, ssRun, ms, msRun, inv, invRun, rng, test, earlier>>

MapRandomToValue ==
    /\ tb.pc \in {"built", "mapped"}
    /\ tb.error = NoError
    /\ \E rand \in TableDraws(tb.scale) :
         tb' = [tb EXCEPT !.pc = "mapped", !.rand = rand,
                          !.mapped = mapRandomToValue(rand, tb.rows, tb.scale)]
    /\ UNCHANGED <<ss, ssRun, ms, msRun, inv, invRun, rng, test, earlier>>

NextTable == BuildCumulative \/ MapRandomToValue

SpecTable == InitTable /\ [][NextTable]_vars

(***************************************************************************)
(* Claims about the cumulative table and the mapper (SpecTable).           *)
(***************************************************************************)
RowsHolding(rows, x) ==
    {i \in 1..Len(rows) : rows[i].rangeStart <= x /\ x <= rows[i].rangeEnd}

PartitionOK(rows, scale) ==
    /\ \A x \in 1..scale : Cardinality(RowsHolding(rows, x)) = 1
    /\ rows[Len(rows)].rangeEnd = scale

Accepted == tb.pc # "input" /\ tb.error = NoError

\* C1: for every distribution buildCumulative accepts and scale 10 or 100,
\* the rows' ranges partition 1..scale (every integer in exactly one row)
\* and the last row ends at scale.
C1_RangesPartitionScale == Accepted => PartitionOK(tb.rows, tb.scale)

\* what does hold: the partition, when no probability is negative
C1_PartitionForNonNegative ==
    (Accepted /\ \A i \in 1..Len(tb.dist) : tb.dist[i].probability >= 0) =>
      PartitionOK(tb.rows, tb.scale)

\* the result of buildCumulative on tb.dist is the rejection
TableRejected == tb.error # NoError /\ tb.rows = <<>>

\* ... is one cumulative row per input row, in input order
TableRowPerInputRow ==
    /\ tb.error = NoError
    /\ Len(tb.rows) = Len(tb.dist)
    /\ \A i \in 1..Len(tb.dist) :
         /\ tb.rows[i].value = tb.dist[i].value
         /\ tb.rows[i].probability = tb.dist[i].probability
         /\ tb.rows[i].cumulative = SumProb(tb.dist, i)

\* |sum of the probabilities - 1|, in thousandths
TableSumError == Abs(SumProb(tb.dist, Len(tb.dist)) - 1000)

\* |sum - 1| > 0.001 for the sum the program holds
TableSumOutOfTolerance == TableSumError > 1 \/ (TableSumError = 1 /\ tb.roundedAway)

\* C15: buildCumulative returns an error and no rows when the distribution
\* is empty or |sum of probabilities - 1| > 0.001; otherwise it returns,
\* without error, one cumulative row per input row in input order.
C15_BuildCumulativeErrors ==
    tb.pc # "input" =>
      IF Len(tb.dist) = 0 \/ TableSumOutOfTolerance THEN TableRejected ELSE TableRowPerInputRow

\* three rows in, three rows out
C15_Witness ==
    /\ tb.pc # "input" /\ Len(tb.dist) = 3 /\ TableSumError = 0 /\ TableRowPerInputRow
    /\ tb.rows[2].cumulative = tb.dist[1].probability + tb.dist[2].probability

\* the rejections: no row, a sum too small, a sum too large
C15_WitnessEmpty == tb.pc # "input" /\ Len(tb.dist) = 0 /\ TableRejected
C15_WitnessSmallSum ==
    tb.pc # "input" /\ SumProb(tb.dist, Len(tb.dist)) = 998 /\ TableRejected
C15_WitnessLargeSum ==
    tb.pc # "input" /\ SumProb(tb.dist, Len(tb.dist)) = 1002 /\ TableRejected

\* typed sums of 0.999 and 1.001 on either side of the bound
C15_WitnessNextToBound ==
    tb.pc # "input" /\ TableSumError = 1 /\ TableRejected
C15_WitnessWithinBound ==
    tb.pc # "input" /\ TableSumError = 1 /\ TableRowPerInputRow

\* C2: for every r in 0..scale and every table built from an accepted
\* distribution, mapRandomToValue returns the value of some row, never null.
C2_MapperTotal ==
    Accepted =>
      /\ \A r \in 0..tb.scale :
            LET m == mapRandomToValue(r, tb.rows, tb.scale)
            IN  ~IsNull(m) /\ \E i \in 1..Len(tb.rows) : tb.rows[i].value = Val(m)
      /\ (tb.pc = "mapped" /\ tb.rand \in 0..tb.scale) =>
            /\ ~IsNull(tb.mapped)
            /\ \E i \in 1..Len(tb.rows) : tb.rows[i].value = Val(tb.mapped)

C2_Witness ==
    /\ Accepted /\ tb.pc = "mapped" /\ tb.rand = 0 /\ Len(tb.rows) = 3
    /\ tb.mapped = Some(3)

(***************************************************************************)
(* SingleServerPage                                                        *)
(***************************************************************************)
\* parseDigits: the typed numbers, 0 (typed "00") read as 100
parseDigits(digits) == [k \in 1..Len(digits) |-> IF digits[k] = 0 THEN 100 ELSE digits[k]]

AnyOutside(nums, lo, hi) == \E k \in 1..Len(nums) : Floor(nums[k]) < lo \/ Ceil(nums[k]) > hi

\* serviceStart of a customer of the single server, without the wait for
\* the previous customer
SSServiceStart_NoWait(arrivalTime, previousServiceEnd) == arrivalTime

SSServiceStart(arrivalTime, previousServiceEnd) == Max(arrivalTime, previousServiceEnd)

\* the row of customer i + 1 (i counts from 0 as in the source), given the
\* rows before it; Null when a digit maps to no row
SSCustomerRow(i, table, arrivalNums, serviceNums, arrivalRows, serviceRows) ==
    LET customer == i + 1
        randArrival == IF i = 0 THEN 0 ELSE arrivalNums[i]
        randService == serviceNums[i + 1]
        interarrival == IF i = 0 THEN Some(0)
                        ELSE mapRandomToValue(randArrival, arrivalRows, 100)
        serviceTime == mapRandomToValue(randService, serviceRows, 100)
    IN  IF IsNull(interarrival) \/ IsNull(serviceTime) THEN Null
        ELSE LET arrivalTime == IF i = 0 THEN 0 ELSE table[i].arrival + Val(interarrival)
                 previousServiceEnd == IF i = 0 THEN 0 ELSE table[i].serviceEnd
                 serviceStart == SSServiceStart(arrivalTime, previousServiceEnd)
                 waiting == serviceStart - arrivalTime
                 idle == serviceStart - previousServiceEnd
                 serviceEnd == serviceStart + Val(serviceTime)
                 timeInSystem == waiting + Val(serviceTime)
             IN  Some([customer |-> customer,
                       randArrival |-> randArrival,
                       interarrival |-> Val(interarrival),
                       arrival |-> arrivalTime,
                       randService |-> randService,
                       service |-> Val(serviceTime),
                       serviceStart |-> serviceStart,
                       serviceEnd |-> serviceEnd,
                       waiting |-> waiting,
                       idle |-> idle,
                       timeInSystem |-> timeInSystem])

SSFewArrivalDigits_OnePerCustomer(length, count) == length < count

\* the first customer arrives at time 0 and reads no arrival digit
SSFewArrivalDigits(length, count) == length < count - 1

\* the checks of runSimulation that come before the loop: the error they
\* set, NoError when the loop is entered
SSPreconditionError(count, arrivalRes, serviceRes, arrivalNums, serviceNums) ==
    IF count < 1 THEN "Number of customers must be at least 1"
    ELSE IF arrivalRes.error # NoError THEN "Arrival: " \o arrivalRes.error
    ELSE IF serviceRes.error # NoError THEN "Service: " \o serviceRes.error
    ELSE IF SSFewArrivalDigits(Len(arrivalNums), count)
    THEN "Not enough arrival random digits for the requested customers"
    ELSE IF Len(serviceNums) < count
    THEN "Not enough service random digits for the requested customers"
    ELSE IF AnyOutside(arrivalNums \o serviceNums, 1, 100)
    THEN "Random digits must be between 01 and 00 (i.e., 1 to 100)"
    ELSE NoError

SSIdle == [pc |-> "idle"]
SSReturned == [pc |-> "returned"]

SSArrivalDists ==
    { <<[value |-> 1, probability |-> 500], [value |-> 2, probability |-> 500]>>,
      <<[value |-> 0, probability |-> 250], [value |-> 3, probability |-> 750]>>,
      <<[value |-> 1, probability |-> 500], [value |-> 2, probability |-> 250]>> }

SSServiceDists ==
    { <<[value |-> 2, probability |-> 500], [value |-> 3, probability |-> 500]>>,
      <<[value |-> 1, probability |-> 300], [value |-> 4, probability |-> 700]>> }

SSArrivalDigitSet == {0, 50, 90}
SSServiceDigitSet == {10, 90, 101, Half(50)}

DigitStreams(digitSet, maxLen) == UNION {[1..n -> digitSet] : n \in 0..maxLen}

InitSingle ==
    /\ ss \in {[arrivalRows |-> a, serviceRows |-> s,
                arrivalDigits |-> ad, serviceDigits |-> sd,
                customerCount |-> c,
                arrivalTable |-> <<>>, serviceTable |-> <<>>,
                simRows |-> <<>>, error |-> NoError] :
               a \in SSArrivalDists, s \in SSServiceDists,
               ad \in DigitStreams(SSArrivalDigitSet, MaxCount - 1),
               sd \in DigitStreams(SSServiceDigitSet, MaxCount),
               c \in 0..MaxCount}
    /\ ssRun = SSIdle
    /\ tb = Unmounted
    /\ ms = Unmounted /\ msRun = Unmounted
    /\ inv = Unmounted /\ invRun = Unmounted
    /\ rng = Unmounted
    /\ test = Unmounted /\ earlier = Unmounted

\* runSimulation up to the loop
SSRunSimulation ==
    /\ ssRun.pc = "idle"
    /\ LET count == ss.customerCount
           arrivalRes == buildCumulative(ss.arrivalRows, 100)
           serviceRes == buildCumulative(ss.serviceRows, 100)
           arrivalNums == parseDigits(ss.arrivalDigits)
           serviceNums == parseDigits(ss.serviceDigits)
           err == SSPreconditionError(count, arrivalRes, serviceRes, arrivalNums, serviceNums)
       IN  IF err # NoError
           THEN /\ ss' = [ss EXCEPT !.error = err]
                /\ ssRun' = SSReturned
           ELSE /\ ssRun' = [pc |-> "loop", count |-> count, i |-> 0, table |-> <<>>,
                             arrivalRes |-> arrivalRes, serviceRes |-> serviceRes,
                             arrivalNums |-> arrivalNums, serviceNums |-> serviceNums]
                /\ UNCHANGED ss
    /\ UNCHANGED <<tb, ms, msRun, inv, invRun, rng, test, earlier>>

\* one pass of the loop body, a failure also clearing the ledger on the page
SSCustomerStep_ClearsLedger ==
    /\ ssRun.pc = "loop"
    /\ ssRun.i < ssRun.count
    /\ LET row == SSCustomerRow(ssRun.i, ssRun.table, ssRun.arrivalNums, ssRun.serviceNums,
                                ssRun.arrivalRes.rows, ssRun.serviceRes.rows)
       IN  IF IsNull(row)
           THEN /\ ss' = [ss EXCEPT !.error =
                            "Random digit could not be mapped to a time. Check tables.",
                                    !.simRows = <<>>]
                /\ ssRun' = SSReturned
           ELSE /\ ssRun' = [ssRun EXCEPT !.i = @ + 1, !.table = Append(@, Val(row))]
                /\ UNCHANGED ss
    /\ UNCHANGED <<tb, ms, msRun, inv, invRun, rng, test, earlier>>

\* one pass of the loop body
SSCustomerStep ==
    /\ ssRun.pc = "loop"
    /\ ssRun.i < ssRun.count
    /\ LET row == SSCustomerRow(ssRun.i, ssRun.table, ssRun.arrivalNums, ssRun.serviceNums,
                                ssRun.arrivalRes.rows, ssRun.serviceRes.rows)
       IN  IF IsNull(row)
           THEN /\ ss' = [ss EXCEPT !.error =
                            "Random digit could not be mapped to a time. Check tables."]
                /\ ssRun' = SSReturned
           ELSE /\ ssRun' = [ssRun EXCEPT !.i = @ + 1, !.table = Append(@, Val(row))]
                /\ UNCHANGED ss
    /\ UNCHANGED <<tb, ms, msRun, inv, invRun, rng, test, earlier>>

\* the end of runSimulation: the results are published together
SSPublish ==
    /\ ssRun.pc = "loop"
    /\ ssRun.i = ssRun.count
    /\ ss' = [ss EXCEPT !.error = NoError,
                        !.arrivalTable = ssRun.arrivalRes.rows,
                        !.serviceTable = ssRun.serviceRes.rows,
                        !.simRows = ssRun.table]
    /\ ssRun' = SSReturned
    /\ UNCHANGED <<tb, ms, msRun, inv, invRun, rng, test, earlier>>

NextSingle == SSRunSimulation \/ SSCustomerStep \/ SSPublish

SpecSingle == InitSingle /\ [][NextSingle]_vars

(***************************************************************************)
(* Claims about the single-server simulator (SpecSingle).                  *)
(***************************************************************************)
SSRecurrenceAt(T, k) ==
    LET prevArrival == IF k = 1 THEN 0 ELSE T[k - 1].arrival
        prevEnd == IF k = 1 THEN 0 ELSE T[k - 1].serviceEnd
        r == T[k]
    IN  /\ r.arrival = IF k = 1 THEN 0 ELSE prevArrival + r.interarrival
        /\ r.serviceStart = (IF r.arrival >= prevEnd THEN r.arrival ELSE prevEnd)
        /\ r.waiting = r.serviceStart - r.arrival
        /\ r.idle = r.serviceStart - prevEnd
        /\ r.serviceEnd = r.serviceStart + r.service
        /\ r.timeInSystem = r.waiting + r.service

SSScenario ==
    /\ ss.arrivalRows = <<[value |-> 1, probability |-> 500], [value |-> 2, probability |-> 500]>>
    /\ ss.serviceRows = <<[value |-> 2, probability |-> 500], [value |-> 3, probability |-> 500]>>
    /\ ss.arrivalDigits = <<50>>
    /\ ss.serviceDigits = <<10, 90>>
    /\ ss.customerCount = 2

\* C3: every row of a run obeys the single-server recurrence (arrival,
\* serviceStart = max(arrival, previous serviceEnd), waiting, idle,
\* serviceEnd, timeInSystem), both while the ledger is built and once it is
\* published; the scenario of the specification gives customer 1 (arrival 0,
\* service 2, end 2) and customer 2 starting at max(arrival, 2).
C3_SingleServerRecurrence ==
    /\ ssRun.pc = "loop" =>
         \A k \in 1..Len(ssRun.table) : SSRecurrenceAt(ssRun.table, k)
    /\ \A k \in 1..Len(ss.simRows) : SSRecurrenceAt(ss.simRows, k)
    /\ (SSScenario /\ ss.simRows # <<>>) =>
         /\ Len(ss.simRows) = 2
         /\ ss.simRows[1].arrival = 0 /\ ss.simRows[1].service = 2
         /\ ss.simRows[1].serviceEnd = 2
         /\ ss.simRows[2].interarrival = 1 /\ ss.simRows[2].arrival = 1
         /\ ss.simRows[2].serviceStart = 2 /\ ss.simRows[2].serviceEnd = 5

C3_Witness ==
    /\ Len(ss.simRows) = 3
    /\ ss.simRows[2].waiting > 0
    /\ ss.simRows[3].idle > 0

C3_ScenarioWitness == SSScenario /\ Len(ss.simRows) = 2

(***************************************************************************)
(* MultiServerPage                                                         *)
(***************************************************************************)
\* the server taken when both are idle, ignoring the configured priority
MSBothIdleServer_AlwaysFirst(priorityServer) == 1

\* the server taken when both are idle at the arrival
MSBothIdleServer(priorityServer) == IF priorityServer = 1 THEN 1 ELSE 2

\* the server waited for when both are busy, a tie going to server 2
MSFirstFree_TieToSecond(server1End, server2End) == IF server1End < server2End THEN 1 ELSE 2

\* the server waited for when both are busy, taken to be the one free last
MSFirstFree_LaterEnd(server1End, server2End) == IF server1End <= server2End THEN 2 ELSE 1

\* the server waited for when both are busy
MSFirstFree(server1End, server2End) == IF server1End <= server2End THEN 1 ELSE 2

\* idle time recorded for an idle server, always 0
MSIdleAccrued_Never(arrivalTime, prevServerEnd) == 0

\* idle time recorded for the idle server that takes the customer
MSIdleAccrued(arrivalTime, prevServerEnd) == Max(0, arrivalTime - prevServerEnd)

\* the if / else-if chain of the loop body: which server serves, from when,
\* and the idle time recorded for each server
MSAssign(arrivalTime, server1End, server2End, priorityServer, serviceTime1, serviceTime2) ==
    LET server1Available == arrivalTime >= server1End
        server2Available == arrivalTime >= server2End
        prevServer1End == server1End
        prevServer2End == server2End
        idleServer == IF server1Available /\ server2Available
                      THEN MSBothIdleServer(priorityServer)
                      ELSE IF server1Available THEN 1
                      ELSE IF server2Available THEN 2
                      ELSE 0
        serverUsed == IF idleServer # 0 THEN idleServer
                      ELSE MSFirstFree(server1End, server2End)
        serviceTime == IF serverUsed = 1 THEN serviceTime1 ELSE serviceTime2
        serviceStart == IF idleServer # 0 THEN arrivalTime
                        ELSE IF serverUsed = 1 THEN server1End ELSE server2End
        serviceEnd == serviceStart + serviceTime
    IN  [serverUsed |-> serverUsed,
         serviceTime |-> serviceTime,
         serviceStart |-> serviceStart,
         serviceEnd |-> serviceEnd,
         waiting |-> IF idleServer # 0 THEN 0 ELSE serviceStart - arrivalTime,
         idle1 |-> IF idleServer = 1 THEN MSIdleAccrued(arrivalTime, prevServer1End) ELSE 0,
         idle2 |-> IF idleServer = 2 THEN MSIdleAccrued(arrivalTime, prevServer2End) ELSE 0,
         server1End |-> IF serverUsed = 1 THEN serviceEnd ELSE server1End,
         server2End |-> IF serverUsed = 2 THEN serviceEnd ELSE server2End]

\* a per-server field of the row, filled for both servers
MSShown_BothServers(serverUsed, server, v) == Some(v)

\* a per-server field of the row: filled for the server used, null for the
\* other
MSShown(serverUsed, server, v) == IF serverUsed = server THEN Some(v) ELSE Null

\* the row of customer i + 1 and the server clocks after it; Null when a
\* digit maps to no row
MSCustomerRow(i, table, server1End, server2End, priorityServer, arrivalNums, serviceNums, arrivalRows, service1Rows, service2Rows) ==
    LET customer == i + 1
        randArrival == IF i = 0 THEN 0 ELSE arrivalNums[i]
        randService == serviceNums[i + 1]
        interarrival == IF i = 0 THEN Some(0)
                        ELSE mapRandomToValue(randArrival, arrivalRows, 100)
        serviceTime1 == mapRandomToValue(randService, service1Rows, 100)
        serviceTime2 == mapRandomToValue(randService, service2Rows, 100)
    IN  IF IsNull(interarrival) \/ IsNull(serviceTime1) \/ IsNull(serviceTime2) THEN Null
        ELSE LET arrivalTime == IF i = 0 THEN 0 ELSE table[i].arrival + Val(interarrival)
                 a == MSAssign(arrivalTime, server1End, server2End, priorityServer,
                               Val(serviceTime1), Val(serviceTime2))
                 timeInSystem == a.waiting + a.serviceTime
             IN  Some([row |->
                        [customer |-> customer,
                         randArrival |-> randArrival,
                         interarrival |-> Val(interarrival),
                         arrival |-> arrivalTime,
                         randService |-> randService,
                         service1 |-> MSShown(a.serverUsed, 1, Val(serviceTime1)),
                         serviceStart1 |-> MSShown(a.serverUsed, 1, a.serviceStart),
                         serviceEnd1 |-> MSShown(a.serverUsed, 1, a.serviceEnd),
                         service2 |-> MSShown(a.serverUsed, 2, Val(serviceTime2)),
                         serviceStart2 |-> MSShown(a.serverUsed, 2, a.serviceStart),
                         serviceEnd2 |-> MSShown(a.serverUsed, 2, a.serviceEnd),
                         waiting |-> a.waiting,
                         idle1 |-> a.idle1,
                         idle2 |-> a.idle2,
                         timeInSystem |-> timeInSystem,
                         serverUsed |-> a.serverUsed],
                       server1End |-> a.server1End,
                       server2End |-> a.server2End])

MSPreconditionError(count, arrivalRes, service1Res, service2Res, arrivalNums, serviceNums) ==
    IF count < 1 THEN "Number of customers must be at least 1"
    ELSE IF arrivalRes.error # NoError THEN "Arrival: " \o arrivalRes.error
    ELSE IF service1Res.error # NoError THEN "Server 1: " \o service1Res.error
    ELSE IF service2Res.error # NoError THEN "Server 2: " \o service2Res.error
    ELSE IF Len(arrivalNums) < count - 1
    THEN "Not enough arrival random digits for the requested customers"
    ELSE IF Len(serviceNums) < count
    THEN "Not enough service random digits for the requested customers"
    ELSE IF AnyOutside(arrivalNums \o serviceNums, 1, 100)
    THEN "Random digits must be between 01 and 00 (i.e., 1 to 100)"
    ELSE NoError

MSIdle == [pc |-> "idle"]
MSReturned == [pc |-> "returned"]

MSArrivalDists ==
    { <<[value |-> 1, probability |-> 500], [value |-> 2, probability |-> 500]>>,
      <<[value |-> 0, probability |-> 250], [value |-> 3, probability |-> 750]>> }

MSServiceDists ==
    { <<[value |-> 2, probability |-> 500], [value |-> 3, probability |-> 500]>>,
      <<[value |-> 1, probability |-> 300], [value |-> 4, probability |-> 700]>> }

\* service times long enough for a server's account to reach 11
MSLongServiceDists ==
    { <<[value |-> 2, probability |-> 500], [value |-> 9, probability |-> 500]>> }

MSArrivalDigitSet == {0, 10, 90}
MSServiceDigitSet == {10, 90, Half(50)}

InitMulti ==
    /\ ms \in {[arrivalRows |-> a, service1Rows |-> sv[1], service2Rows |-> sv[2],
                arrivalDigits |-> ad, serviceDigits |-> sd,
                customerCount |-> c, priorityServer |-> p,
                arrivalTable |-> <<>>, service1Table |-> <<>>, service2Table |-> <<>>,
                simRows |-> <<>>, error |-> NoError] :
               a \in MSArrivalDists,
               sv \in (MSServiceDists \X MSServiceDists)
                        \cup (MSLongServiceDists \X MSLongServiceDists),
               ad \in DigitStreams(MSArrivalDigitSet, MaxCount - 1),
               sd \in DigitStreams(MSServiceDigitSet, MaxCount),
               c \in 0..MaxCount, p \in {1, 2}}
    /\ msRun = MSIdle
    /\ tb = Unmounted
    /\ ss = Unmounted /\ ssRun = Unmounted
    /\ inv = Unmounted /\ invRun = Unmounted
    /\ rng = Unmounted
    /\ test = Unmounted /\ earlier = Unmounted

\* runSimulation up to the loop
MSRunSimulation ==
    /\ msRun.pc = "idle"
    /\ LET count == ms.customerCount
           arrivalRes == buildCumulative(ms.arrivalRows, 100)
           service1Res == buildCumulative(ms.service1Rows, 100)
           service2Res == buildCumulative(ms.service2Rows, 100)
           arrivalNums == parseDigits(ms.arrivalDigits)
           serviceNums == parseDigits(ms.serviceDigits)
           err == MSPreconditionError(count, arrivalRes, service1Res, service2Res,
                                      arrivalNums, serviceNums)
       IN  IF err # NoError
           THEN /\ ms' = [ms EXCEPT !.error = err]
                /\ msRun' = MSReturned
           ELSE /\ msRun' = [pc |-> "loop", count |-> count, i |-> 0, table |-> <<>>,
                             server1End |-> 0, server2End |-> 0,
                             arrivalRes |-> arrivalRes,
                             service1Res |-> service1Res, service2Res |-> service2Res,
                             arrivalNums |-> arrivalNums, serviceNums |-> serviceNums]
                /\ UNCHANGED ms
    /\ UNCHANGED <<tb, ss, ssRun, inv, invRun, rng, test, earlier>>

\* one pass of the loop body
MSCustomerStep ==
    /\ msRun.pc = "loop"
    /\ msRun.i < msRun.count
    /\ LET r == MSCustomerRow(msRun.i, msRun.table, msRun.server1End, msRun.server2End,
                              ms.priorityServer, msRun.arrivalNums, msRun.serviceNums,
                              msRun.arrivalRes.rows, msRun.service1Res.rows,
                              msRun.service2Res.rows)
       IN  IF IsNull(r)
           THEN /\ ms' = [ms EXCEPT !.error =
                            "Random digit could not be mapped to a time. Check tables."]
                /\ msRun' = MSReturned
           ELSE /\ msRun' = [msRun EXCEPT !.i = @ + 1,
                                          !.table = Append(@, Val(r).row),
                                          !.server1End = Val(r).server1End,
                                          !.server2End = Val(r).server2End]
                /\ UNCHANGED ms
    /\ UNCHANGED <<tb, ss, ssRun, inv, invRun, rng, test, earlier>>

\* the end of runSimulation: the results are published together
MSPublish ==
    /\ msRun.pc = "loop"
    /\ msRun.i = msRun.count
    /\ ms' = [ms EXCEPT !.error = NoError,
                        !.arrivalTable = msRun.arrivalRes.rows,
                        !.service1Table = msRun.service1Res.rows,
                        !.service2Table = msRun.service2Res.rows,
                        !.simRows = msRun.table]
    /\ msRun' = MSReturned
    /\ UNCHANGED <<tb, ss, ssRun, inv, invRun, rng, test, earlier>>

NextMulti == MSRunSimulation \/ MSCustomerStep \/ MSPublish

SpecMulti == InitMulti /\ [][NextMulti]_vars

(***************************************************************************)
(* Claims about the multi-server simulator (SpecMulti).                    *)
(***************************************************************************)
MSRowStart(r) == IF r.serverUsed = 1 THEN Val(r.serviceStart1) ELSE Val(r.serviceStart2)
MSRowEnd(r) == IF r.serverUsed = 1 THEN Val(r.serviceEnd1) ELSE Val(r.serviceEnd2)

\* the end clock of server s when customer k arrives: the service end of
\* the last customer before k that s served, 0 when there is none
RECURSIVE MSEndBefore(_, _, _)
MSEndBefore(T, k, s) ==
    IF k = 1 THEN 0
    ELSE IF T[k - 1].serverUsed = s THEN MSRowEnd(T[k - 1])
    ELSE MSEndBefore(T, k - 1, s)

MSIdleRuleAt(T, k, priorityServer) ==
    LET a == T[k].arrival
        idle1 == a >= MSEndBefore(T, k, 1)
        idle2 == a >= MSEndBefore(T, k, 2)
    IN  (idle1 \/ idle2) =>
          /\ MSRowStart(T[k]) = a
          /\ T[k].waiting = 0
          /\ (idle1 /\ idle2) => T[k].serverUsed = priorityServer
          /\ (idle1 /\ ~idle2) => T[k].serverUsed = 1
          /\ (idle2 /\ ~idle1) => T[k].serverUsed = 2

MSBusyRuleAt(T, k) ==
    LET a == T[k].arrival
        e1 == MSEndBefore(T, k, 1)
        e2 == MSEndBefore(T, k, 2)
    IN  (a < e1 /\ a < e2) =>
          /\ T[k].serverUsed = (IF e1 < e2 THEN 1 ELSE IF e2 < e1 THEN 2 ELSE 1)
          /\ MSRowStart(T[k]) = (IF e1 <= e2 THEN e1 ELSE e2)
          /\ T[k].waiting = (IF e1 <= e2 THEN e1 ELSE e2) - a

\* C4: a customer arriving while at least one server is idle starts at its
\* arrival time with waiting 0, on the priority server when both are idle
\* and on the only idle server otherwise, whatever the priority.
C4_IdleServerRule ==
    /\ msRun.pc = "loop" =>
         /\ msRun.server1End = MSEndBefore(msRun.table, Len(msRun.table) + 1, 1)
         /\ msRun.server2End = MSEndBefore(msRun.table, Len(msRun.table) + 1, 2)
         /\ \A k \in 1..Len(msRun.table) : MSIdleRuleAt(msRun.table, k, ms.priorityServer)
    /\ \A k \in 1..Len(ms.simRows) : MSIdleRuleAt(ms.simRows, k, ms.priorityServer)

\* both idle under priority 2, and exactly one idle against the priority
C4_Witness ==
    /\ ms.priorityServer = 2
    /\ Len(ms.simRows) = 3
    /\ ms.simRows[1].serverUsed = 2
    /\ ms.simRows[2].serverUsed = 1
    /\ ms.simRows[2].arrival < MSEndBefore(ms.simRows, 2, 2)
    /\ ms.simRows[3].serverUsed = 1
    /\ ms.simRows[3].arrival >= MSEndBefore(ms.simRows, 3, 1)
    /\ ms.simRows[3].arrival < MSEndBefore(ms.simRows, 3, 2)

\* C5: a customer arriving while both servers are busy is served by the
\* server with the smaller end clock, server 1 on a tie, starting at that
\* end clock and waiting from its arrival until then.
C5_BothBusyRule ==
    /\ msRun.pc = "loop" =>
         \A k \in 1..Len(msRun.table) : MSBusyRuleAt(msRun.table, k)
    /\ \A k \in 1..Len(ms.simRows) : MSBusyRuleAt(ms.simRows, k)

\* both busy with equal end clocks under priority 2: server 1 serves
C5_Witness ==
    /\ ms.priorityServer = 2
    /\ Len(ms.simRows) = 3
    /\ ms.simRows[3].arrival < MSEndBefore(ms.simRows, 3, 1)
    /\ MSEndBefore(ms.simRows, 3, 1) = MSEndBefore(ms.simRows, 3, 2)
    /\ ms.simRows[3].serverUsed = 1
    /\ ms.simRows[3].waiting > 0

\* both busy with server 2 free first
C5_WitnessSecond ==
    /\ Len(ms.simRows) = 3
    /\ ms.simRows[3].arrival < MSEndBefore(ms.simRows, 3, 2)
    /\ MSEndBefore(ms.simRows, 3, 2) < MSEndBefore(ms.simRows, 3, 1)
    /\ ms.simRows[3].serverUsed = 2

(***************************************************************************)
(* InventoryPage                                                           *)
(*                                                                         *)
(* The two digit fields are read front to back, each digit once.  The page *)
(* holds, for each field, how many digits it has and the digits read so    *)
(* far; a digit that no run has read yet is drawn where it is first read   *)
(* and is the same in every later run.  parseDigits of this page keeps     *)
(* only the digits of 1..scale, so the digits drawn are in that range.     *)
(***************************************************************************)
RECURSIVE ExpectedValue(_, _)
\* sum of value * probability over the first n rows, in thousandths
ExpectedValue(rows, n) ==
    IF n = 0 THEN 0 ELSE ExpectedValue(rows, n - 1) + rows[n].value * rows[n].probability

\* Math.ceil(a / b) for b > 0
CeilDiv(a, b) == 0 - ((0 - a) \div b)

reorderPoint_NoSafetyUnit(demandRows, leadTimeRows) ==
    IF Len(demandRows) = 0 \/ Len(leadTimeRows) = 0 THEN 3
    ELSE CeilDiv(ExpectedValue(demandRows, Len(demandRows))
                   * ExpectedValue(leadTimeRows, Len(leadTimeRows)), 1000 * 1000)

reorderPoint(demandRows, leadTimeRows) ==
    IF Len(demandRows) = 0 \/ Len(leadTimeRows) = 0 THEN 3
    ELSE CeilDiv(ExpectedValue(demandRows, Len(demandRows))
                   * ExpectedValue(leadTimeRows, Len(leadTimeRows)), 1000 * 1000) + 1

\* pendingOrders before the loop
\* a list of pending orders shared between runs: a later run starts with
\* what the earlier one left, the initial order gone
InvInitialOrders_SharedList(initOrderQty, initOrderLead) ==
    IF earlier # <<>> THEN <<>>
    ELSE IF initOrderQty > 0 /\ initOrderLead > 0
    THEN <<[quantity |-> initOrderQty, arrivalCycle |-> 1, arrivalDay |-> initOrderLead + 1]>>
    ELSE <<>>

InvInitialOrders(initOrderQty, initOrderLead) ==
    IF initOrderQty > 0 /\ initOrderLead > 0
    THEN <<[quantity |-> initOrderQty, arrivalCycle |-> 1, arrivalDay |-> initOrderLead + 1]>>
    ELSE <<>>

InvArrivesToday(order, cycle, day) == order.arrivalCycle = cycle /\ order.arrivalDay = day

RECURSIVE InvSumQuantity(_, _, _, _)
\* arrivalsToday: the quantities of the first n pending orders due today
InvSumQuantity(pendingOrders, n, cycle, day) ==
    IF n = 0 THEN 0
    ELSE InvSumQuantity(pendingOrders, n - 1, cycle, day)
           + (IF InvArrivesToday(pendingOrders[n], cycle, day)
              THEN pendingOrders[n].quantity ELSE 0)

RECURSIVE InvKeepPending(_, _, _)
\* pendingOrders without the orders due today, in order
InvKeepPending(pendingOrders, cycle, day) ==
    IF pendingOrders = <<>> THEN <<>>
    ELSE IF InvArrivesToday(Head(pendingOrders), cycle, day)
    THEN InvKeepPending(Tail(pendingOrders), cycle, day)
    ELSE <<Head(pendingOrders)>> \o InvKeepPending(Tail(pendingOrders), cycle, day)

\* "days until next arrival" shown on a day without a new order
InvDaysUntilNextArrival(pendingOrders, cycle, day) ==
    LET ordersThisCycle == {k \in 1..Len(pendingOrders) : pendingOrders[k].arrivalCycle = cycle}
    IN  IF ordersThisCycle = {} THEN Null
        ELSE LET nextArrivalDay ==
                   CHOOSE d \in {pendingOrders[k].arrivalDay : k \in ordersThisCycle} :
                     \A k \in ordersThisCycle : d <= pendingOrders[k].arrivalDay
             IN  Some(Max(0, nextArrivalDay - day - 1))

\* backlog settlement that forgets what the stock could not pay
InvSettleBacklog_DropRest(inventory, accumulatedShortage) ==
    IF accumulatedShortage > 0
    THEN IF inventory >= accumulatedShortage
         THEN [inventory |-> inventory - accumulatedShortage, accumulatedShortage |-> 0]
         ELSE [inventory |-> 0, accumulatedShortage |-> 0]
    ELSE [inventory |-> inventory, accumulatedShortage |-> accumulatedShortage]

\* Step 1: fulfil the accumulated shortage of the previous days
InvSettleBacklog(inventory, accumulatedShortage) ==
    IF accumulatedShortage > 0
    THEN IF inventory >= accumulatedShortage
         THEN [inventory |-> inventory - accumulatedShortage, accumulatedShortage |-> 0]
         ELSE [inventory |-> 0, accumulatedShortage |-> accumulatedShortage - inventory]
    ELSE [inventory |-> inventory, accumulatedShortage |-> accumulatedShortage]

\* demand step that books the whole demand as unmet when the stock is short
InvServeDemand_WholeDemandUnmet(inventory, accumulatedShortage, demandToday) ==
    IF inventory >= demandToday
    THEN [endingInventory |-> inventory - demandToday, shortage |-> accumulatedShortage]
    ELSE [endingInventory |-> 0, shortage |-> accumulatedShortage + demandToday]

\* demand step that keeps the stock it could have handed out when the stock
\* is short
InvServeDemand_KeepStock(inventory, accumulatedShortage, demandToday) ==
    IF inventory >= demandToday
    THEN [endingInventory |-> inventory - demandToday, shortage |-> accumulatedShortage]
    ELSE [endingInventory |-> inventory,
          shortage |-> accumulatedShortage + (demandToday - inventory)]

\* Step 2: satisfy the demand of the day
InvServeDemand(inventory, accumulatedShortage, demandToday) ==
    IF inventory >= demandToday
    THEN [endingInventory |-> inventory - demandToday, shortage |-> accumulatedShortage]
    ELSE [endingInventory |-> 0,
          shortage |-> accumulatedShortage + (demandToday - inventory)]

\* a review on every day of the cycle
InvIsReviewDay_EveryDay(day, days) == TRUE

\* the periodic review is on the last day of the cycle
InvIsReviewDay(day, days) == day = days

InvOrderQuantity(invLimit, endingInventory, shortage) == invLimit - endingInventory + shortage

\* an order placed one day late
InvArrivalDate_OneDayLate(cycle, day, days, leadTimeDays) ==
    LET arrivalAbsDay == (cycle - 1) * days + day + leadTimeDays + 2
    IN  [arrivalCycle |-> CeilDiv(arrivalAbsDay, days),
         arrivalDay |-> IF arrivalAbsDay % days = 0 THEN days ELSE arrivalAbsDay % days]

\* the conversion without the rule that remainder 0 is the last day
InvArrivalDate_RemainderAsDay(cycle, day, days, leadTimeDays) ==
    LET arrivalAbsDay == (cycle - 1) * days + day + leadTimeDays + 1
    IN  [arrivalCycle |-> CeilDiv(arrivalAbsDay, days),
         arrivalDay |-> arrivalAbsDay % days]

\* (arrivalCycle, arrivalDay) of an order placed at the end of (cycle, day)
InvArrivalDate(cycle, day, days, leadTimeDays) ==
    LET currentAbsDay == (cycle - 1) * days + day
        arrivalAbsDay == currentAbsDay + leadTimeDays + 1
    IN  [arrivalCycle |-> CeilDiv(arrivalAbsDay, days),
         arrivalDay |-> IF arrivalAbsDay % days = 0 THEN days ELSE arrivalAbsDay % days]

InvLeadTimeAvailable_ReadPastEnd(leadTimeIndex, length) == leadTimeIndex <= length

\* an unused lead-time digit remains
InvLeadTimeAvailable(leadTimeIndex, length) == leadTimeIndex < length

\* one pass of the inner loop body on day (cycle, day), reading randDemand
\* and, when an order is placed, randLeadTime
InvDay(run, invLimit, randDemand, randLeadTime, leadTimeAvailable) ==
    LET cycle == run.cycle
        day == run.day
        days == run.days
        arrivalsToday == InvSumQuantity(run.pendingOrders, Len(run.pendingOrders), cycle, day)
        pendingAfterArrivals == InvKeepPending(run.pendingOrders, cycle, day)
        inventory == run.inventory + arrivalsToday
        beginningInventoryForDisplay == inventory
        daysUntilNextArrival == IF Len(pendingAfterArrivals) > 0
                                THEN InvDaysUntilNextArrival(pendingAfterArrivals, cycle, day)
                                ELSE Null
        demandToday == mapRandomToValue(randDemand, run.demandRes.rows, 100)
    IN  IF IsNull(demandToday) THEN [error |-> "demand"]
        ELSE
        LET carried == IF Len(run.table) > 0 THEN run.table[Len(run.table)].shortage ELSE 0
            settled == InvSettleBacklog(inventory, carried)
            served == InvServeDemand(settled.inventory, settled.accumulatedShortage,
                                     Val(demandToday))
            endingInventory == served.endingInventory
            shortage == served.shortage
            review == InvIsReviewDay(day, days)
            quantity == InvOrderQuantity(invLimit, endingInventory, shortage)
            placing == review /\ quantity > 0 /\ leadTimeAvailable
            leadTimeDays == IF placing THEN mapRandomToValue(randLeadTime, run.leadTimeRes.rows, 10)
                            ELSE Null
        IN  IF placing /\ IsNull(leadTimeDays) THEN [error |-> "leadTime"]
            ELSE
            LET date == InvArrivalDate(cycle, day, days, Val(leadTimeDays))
            IN  [error |-> NoError,
                 placed |-> placing,
                 row |-> [cycle |-> cycle,
                          day |-> day,
                          beginningInventory |-> beginningInventoryForDisplay,
                          randDemand |-> randDemand,
                          demand |-> Val(demandToday),
                          endingInventory |-> endingInventory,
                          shortage |-> shortage,
                          orderQuantity |-> IF review THEN Some(quantity) ELSE Null,
                          randLeadTime |-> IF placing THEN Some(randLeadTime) ELSE Null,
                          daysUntilArrival |-> IF placing THEN leadTimeDays
                                               ELSE daysUntilNextArrival],
                 pendingOrders |-> IF placing
                                   THEN Append(pendingAfterArrivals,
                                               [quantity |-> quantity,
                                                arrivalCycle |-> date.arrivalCycle,
                                                arrivalDay |-> date.arrivalDay])
                                   ELSE pendingAfterArrivals,
                 inventory |-> endingInventory]

\* the checks of runSimulation that come before the loop
InvPreconditionError(cycles, days, initInv, invLimit, initOrderQty, initOrderLead, reorder, demandRes, leadTimeRes, demandCount, demandNums, leadTimeNums) ==
    IF cycles < 1 \/ days < 1 THEN "Number of cycles and days per cycle must be at least 1"
    ELSE IF initInv < 0 THEN "Initial inventory must be non-negative"
    ELSE IF invLimit <= reorder THEN "Inventory limit must be greater than reorder point"
    ELSE IF initOrderQty < 0 THEN "Initial order quantity must be non-negative"
    ELSE IF initOrderLead < 0 THEN "Initial order lead time must be non-negative"
    ELSE IF demandRes.error # NoError THEN "Demand: " \o demandRes.error
    ELSE IF leadTimeRes.error # NoError THEN "Lead Time: " \o leadTimeRes.error
    ELSE IF demandCount < cycles * days THEN "Not enough demand random digits"
    ELSE IF AnyOutside(demandNums, 1, 100)
    THEN "Demand random digits must be between 01 and 00 (i.e., 1 to 100)"
    ELSE IF AnyOutside(leadTimeNums, 1, 10)
    THEN "Lead time random digits must be between 0 and 9 (i.e., 1 to 10 after conversion)"
    ELSE NoError

InvIdle == [pc |-> "idle"]
InvReturned == [pc |-> "returned"]

InvDemandDists ==
    { <<[value |-> 0, probability |-> 500], [value |-> 3, probability |-> 500]>> }

InvLeadTimeDists ==
    { <<[value |-> 0, probability |-> 500], [value |-> 1, probability |-> 500]>> }

\* digits as parseDigits leaves them ("00" is 100, "0" is 10)
InvDemandDigitSet == {10, 100, Half(50)}
InvLeadTimeDigitSet == {5, 10, Half(5)}

InvInitialInventories == {-1, 0, 4}
InvInventoryLimits == {2, 4}
InvInitialOrders0 ==
    { [quantity |-> 0, leadTime |-> 0], [quantity |-> 5, leadTime |-> 0],
      [quantity |-> 5, leadTime |-> 1], [quantity |-> 2, leadTime |-> 1],
      [quantity |-> 5, leadTime |-> 2] }

InitInventory ==
    /\ inv \in {[demandRows |-> d, leadTimeRows |-> l,
                 initialInventory |-> i0, inventoryLimit |-> lim,
                 initialOrderQuantity |-> o.quantity, initialOrderLeadTime |-> o.leadTime,
                 demandDigits |-> <<>>, demandDigitCount |-> dc,
                 leadTimeDigits |-> <<>>, leadTimeDigitCount |-> lc,
                 numCycles |-> c, daysPerCycle |-> n,
                 demandTable |-> <<>>, leadTimeTable |-> <<>>,
                 simRows |-> <<>>, error |-> NoError] :
                d \in InvDemandDists, l \in InvLeadTimeDists,
                i0 \in InvInitialInventories, lim \in InvInventoryLimits,
                o \in InvInitialOrders0,
                dc \in {MaxCycles * MaxDays - 1, MaxCycles * MaxDays},
                lc \in {1, MaxCycles},
                c \in 0..MaxCycles, n \in 0..MaxDays}
    /\ invRun = InvIdle
    /\ tb = Unmounted
    /\ ss = Unmounted /\ ssRun = Unmounted
    /\ ms = Unmounted /\ msRun = Unmounted
    /\ rng = Unmounted
    /\ test = Unmounted /\ earlier = Unmounted

\* runSimulation up to the loops
InvRunSimulation ==
    /\ invRun.pc = "idle"
    /\ LET cycles == inv.numCycles
           days == inv.daysPerCycle
           initInv == inv.initialInventory
           invLimit == inv.inventoryLimit
           initOrderQty == inv.initialOrderQuantity
           initOrderLead == inv.initialOrderLeadTime
           reorder == reorderPoint(inv.demandRows, inv.leadTimeRows)
           demandRes == buildCumulative(inv.demandRows, 100)
           leadTimeRes == buildCumulative(inv.leadTimeRows, 10)
           err == InvPreconditionError(cycles, days, initInv, invLimit, initOrderQty,
                                       initOrderLead, reorder, demandRes, leadTimeRes,
                                       inv.demandDigitCount, inv.demandDigits,
                                       inv.leadTimeDigits)
       IN  IF err # NoError
           THEN /\ inv' = [inv EXCEPT !.error = err]
                /\ invRun' = InvReturned
           ELSE /\ invRun' = [pc |-> "loop", cycles |-> cycles, days |-> days,
                              invLimit |-> invLimit,
                              demandRes |-> demandRes, leadTimeRes |-> leadTimeRes,
                              table |-> <<>>, inventory |-> initInv,
                              pendingOrders |-> InvInitialOrders(initOrderQty, initOrderLead),
                              demandIndex |-> 0, leadTimeIndex |-> 0,
                              cycle |-> 1, day |-> 1]
                /\ UNCHANGED inv
    /\ UNCHANGED <<tb, ss, ssRun, ms, msRun, rng, test, earlier>>

\* the digit at 0-based position index of a digit field: the one read
\* before, or any digit when none was
DigitChoices(revealed, index, digitSet) ==
    IF index < Len(revealed) THEN {revealed[index + 1]} ELSE digitSet

Reveal(revealed, index, digit) ==
    IF index < Len(revealed) THEN revealed ELSE Append(revealed, digit)

\* one pass of the inner loop body
InvDayStep ==
    /\ invRun.pc = "loop"
    /\ invRun.cycle <= invRun.cycles
    /\ \E randDemand \in DigitChoices(inv.demandDigits, invRun.demandIndex, InvDemandDigitSet) :
       \E randLeadTime \in DigitChoices(inv.leadTimeDigits, invRun.leadTimeIndex,
                                        InvLeadTimeDigitSet) :
         LET leadTimeAvailable == InvLeadTimeAvailable(invRun.leadTimeIndex,
                                                       inv.leadTimeDigitCount)
             r == InvDay(invRun, invRun.invLimit, randDemand, randLeadTime, leadTimeAvailable)
             demandDigits == Reveal(inv.demandDigits, invRun.demandIndex, randDemand)
         IN  IF r.error # NoError
             THEN /\ inv' = [inv EXCEPT !.error =
                                 IF r.error = "demand"
                                 THEN "Demand random digit could not be mapped. Check tables."
                                 ELSE "Lead time random digit could not be mapped. Check tables.",
                                        !.demandDigits = demandDigits,
                                        !.leadTimeDigits =
                                           IF r.error = "demand" THEN @
                                           ELSE Reveal(@, invRun.leadTimeIndex, randLeadTime)]
                  /\ invRun' = InvReturned
             ELSE /\ inv' = [inv EXCEPT !.demandDigits = demandDigits,
                                        !.leadTimeDigits =
                                           IF r.placed
                                           THEN Reveal(@, invRun.leadTimeIndex, randLeadTime)
                                           ELSE @]
                  /\ invRun' = [invRun EXCEPT
                                  !.table = Append(@, r.row),
                                  !.inventory = r.inventory,
                                  !.pendingOrders = r.pendingOrders,
                                  !.demandIndex = @ + 1,
                                  !.leadTimeIndex = IF r.placed THEN @ + 1 ELSE @,
                                  !.day = IF invRun.day = invRun.days THEN 1 ELSE @ + 1,
                                  !.cycle = IF invRun.day = invRun.days THEN @ + 1 ELSE @]
    /\ UNCHANGED <<tb, ss, ssRun, ms, msRun, rng, test, earlier>>

\* the end of runSimulation: the results are published together
InvPublish ==
    /\ invRun.pc = "loop"
    /\ invRun.cycle > invRun.cycles
    /\ inv' = [inv EXCEPT !.error = NoError,
                          !.demandTable = invRun.demandRes.rows,
                          !.leadTimeTable = invRun.leadTimeRes.rows,
                          !.simRows = invRun.table]
    /\ invRun' = InvReturned
    /\ UNCHANGED <<tb, ss, ssRun, ms, msRun, rng, test, earlier>>

NextInventory == InvRunSimulation \/ InvDayStep \/ InvPublish

SpecInventory == InitInventory /\ [][NextInventory]_vars

(***************************************************************************)
(* Claims about the inventory simulator (SpecInventory).                   *)
(* The ledger T is the working table of the run or the published simRows;  *)
(* row k of T is the k-th simulated day.                                   *)
(***************************************************************************)
InvLeadTable == buildCumulative(inv.leadTimeRows, 10).rows

\* what reached on-hand inventory at the start of day k
InvArrivals(T, k) ==
    T[k].beginningInventory - (IF k = 1 THEN inv.initialInventory ELSE T[k - 1].endingInventory)

\* the shortage carried into day k
InvCarried(T, k) == IF k = 1 THEN 0 ELSE T[k - 1].shortage

\* the review of day j enqueued an order
InvPlaced(T, j) == ~IsNull(T[j].randLeadTime)
InvLeadOf(T, j) == Val(mapRandomToValue(Val(T[j].randLeadTime), InvLeadTable, 10))
InvDueDay(T, j) == j + InvLeadOf(T, j) + 1

RECURSIVE InvReviewArrivals(_, _, _)
\* the quantities of the orders of the reviews 1..j that are due on day k
InvReviewArrivals(T, j, k) ==
    IF j = 0 THEN 0
    ELSE InvReviewArrivals(T, j - 1, k)
           + (IF InvPlaced(T, j) /\ InvDueDay(T, j) = k THEN Val(T[j].orderQuantity) ELSE 0)

\* what reached on-hand inventory on day k beyond the review orders due then
InvOtherArrivals(T, k) == InvArrivals(T, k) - InvReviewArrivals(T, k - 1, k)

RECURSIVE InvOpenOrders(_, _, _, _)
\* the orders of the reviews 1..j still to come after day n, oldest first
InvOpenOrders(T, j, n, days) ==
    IF j = 0 THEN <<>>
    ELSE InvOpenOrders(T, j - 1, n, days)
           \o (IF InvPlaced(T, j) /\ InvDueDay(T, j) > n
               THEN <<[quantity |-> Val(T[j].orderQuantity),
                       arrivalCycle |-> ((InvDueDay(T, j) - 1) \div days) + 1,
                       arrivalDay |-> ((InvDueDay(T, j) - 1) % days) + 1]>>
               ELSE <<>>)

InvReviewOrdersArrive(T) ==
    /\ \A k \in 1..Len(T) : InvOtherArrivals(T, k) \in {0, inv.initialOrderQuantity}
    /\ Cardinality({k \in 1..Len(T) : InvOtherArrivals(T, k) # 0}) <= 1

\* C6: every order enqueued by a review on day j with lead time L reaches
\* on-hand inventory exactly once, at the start of day j + L + 1, and leaves
\* the pending list then; until that day it is pending, and nothing else
\* but the initial order (at most once) is ever added.
C6_ReviewOrderArrivesOnce ==
    /\ invRun.pc = "loop" =>
         LET T == invRun.table
             open == InvOpenOrders(T, Len(T), Len(T), invRun.days)
             P == invRun.pendingOrders
         IN  /\ InvReviewOrdersArrive(T)
             /\ \/ P = open
                \/ /\ Len(P) = Len(open) + 1
                   /\ Tail(P) = open
                   /\ P[1].quantity = inv.initialOrderQuantity
                   /\ \A k \in 1..Len(T) : InvOtherArrivals(T, k) = 0
    /\ InvReviewOrdersArrive(inv.simRows)

\* an order placed on day 2 with lead time 1 arrives on day 4, and one
\* placed on day 4 is beyond the horizon
C6_Witness ==
    /\ Len(inv.simRows) = 4
    /\ inv.daysPerCycle = 2
    /\ InvPlaced(inv.simRows, 2) /\ InvLeadOf(inv.simRows, 2) = 1
    /\ InvArrivals(inv.simRows, 3) = 0
    /\ InvArrivals(inv.simRows, 4) = Val(inv.simRows[2].orderQuantity)
    /\ InvPlaced(inv.simRows, 4)

\* two review orders pending at once
C6_WitnessTwoPending ==
    /\ invRun.pc = "loop"
    /\ Len(InvOpenOrders(invRun.table, Len(invRun.table), Len(invRun.table), invRun.days)) = 2

\* C7: a pre-seeded initial order (quantity q > 0, lead time L >= 0) is in
\* the pending list before day 1 of cycle 1, and q reaches on-hand inventory
\* exactly once, on day L + 1 of the run, whenever the run has that day.
C7_InitialOrderArrives ==
    /\ (invRun.pc = "loop" /\ invRun.table = <<>> /\ inv.initialOrderQuantity > 0) =>
         /\ Len(invRun.pendingOrders) = 1
         /\ invRun.pendingOrders[1].quantity = inv.initialOrderQuantity
    /\ (inv.initialOrderQuantity > 0 /\ inv.initialOrderLeadTime + 1 <= Len(inv.simRows)) =>
         \A k \in 1..Len(inv.simRows) :
           InvOtherArrivals(inv.simRows, k) =
             (IF k = inv.initialOrderLeadTime + 1 THEN inv.initialOrderQuantity ELSE 0)

\* the same for lead times of at least one day only: the order is lost when
\* day L + 1 is past the first cycle
C7_InitialOrderLostAfterFirstCycle ==
    (inv.initialOrderQuantity > 0 /\ inv.initialOrderLeadTime >= 1
       /\ inv.initialOrderLeadTime + 1 <= Len(inv.simRows)) =>
      InvOtherArrivals(inv.simRows, inv.initialOrderLeadTime + 1) = inv.initialOrderQuantity

\* what does hold: the order arrives on day L + 1 when 1 <= L < daysPerCycle
C7_InitialOrderWithinFirstCycle ==
    (inv.initialOrderQuantity > 0 /\ inv.initialOrderLeadTime >= 1
       /\ inv.initialOrderLeadTime + 1 <= inv.daysPerCycle /\ inv.simRows # <<>>) =>
      \A k \in 1..Len(inv.simRows) :
        InvOtherArrivals(inv.simRows, k) =
          (IF k = inv.initialOrderLeadTime + 1 THEN inv.initialOrderQuantity ELSE 0)

InvBacklogSettledAt(T, k) ==
    LET onHand == T[k].beginningInventory
        carried == InvCarried(T, k)
        afterInv == IF onHand >= carried THEN onHand - carried ELSE 0
        afterShort == IF onHand >= carried THEN 0 ELSE carried - onHand
        d == T[k].demand
    IN  /\ T[k].endingInventory = Max(afterInv - d, 0)
        /\ T[k].shortage = afterShort + Max(d - afterInv, 0)
        /\ (onHand = 0 /\ d = 3) => (T[k].endingInventory = 0 /\ T[k].shortage = carried + 3)
        /\ (k > 1 /\ T[k - 1].endingInventory = 0 /\ carried = 3 /\ InvArrivals(T, k) = 5) =>
             (afterInv = 2 /\ afterShort = 0 /\ T[k].endingInventory = Max(2 - d, 0))

\* C8: on every day the shortage carried from the day before is paid out of
\* the on-hand inventory (after the arrivals) before the demand is applied:
\* fully when on-hand >= shortage, else on-hand becomes 0 and the shortage
\* drops by it.  On-hand 0 and demand 3 give ending 0 and shortage + 3; an
\* arrival of 5 the next day leaves 2 before that day's demand.
C8_BacklogSettledFirst ==
    /\ invRun.pc = "loop" =>
         \A k \in 1..Len(invRun.table) : InvBacklogSettledAt(invRun.table, k)
    /\ \A k \in 1..Len(inv.simRows) : InvBacklogSettledAt(inv.simRows, k)

C8_Witness ==
    /\ Len(inv.simRows) >= 2
    /\ inv.simRows[1].beginningInventory = 0 /\ inv.simRows[1].demand = 3
    /\ inv.simRows[1].shortage = 3
    /\ InvArrivals(inv.simRows, 2) = 5
    /\ inv.simRows[2].demand = 0 /\ inv.simRows[2].endingInventory = 2
    /\ inv.simRows[2].shortage = 0

\* a partial payment: the stock is less than the backlog
C8_WitnessPartial ==
    /\ Len(inv.simRows) >= 2
    /\ inv.simRows[2].beginningInventory > 0
    /\ inv.simRows[2].beginningInventory < inv.simRows[1].shortage
    /\ inv.simRows[2].shortage > 0

InvDemandServedAt(T, k) ==
    LET onHand == T[k].beginningInventory
        carried == InvCarried(T, k)
        v == Max(onHand - carried, 0)
        backlog == Max(carried - onHand, 0)
        d == T[k].demand
    IN  IF v >= d
        THEN T[k].endingInventory = v - d /\ T[k].shortage = backlog
        ELSE T[k].endingInventory = 0 /\ T[k].shortage = backlog + (d - v)

\* C9: after the settlement the demand d is served from the remaining
\* on-hand inventory v: v >= d leaves v - d and the shortage unchanged,
\* otherwise the ending inventory is 0 and the shortage grows by d - v.
C9_DemandStep ==
    /\ invRun.pc = "loop" =>
         \A k \in 1..Len(invRun.table) : InvDemandServedAt(invRun.table, k)
    /\ \A k \in 1..Len(inv.simRows) : InvDemandServedAt(inv.simRows, k)

\* stock 4, demand 3 leaves 1; the next demand of 3 leaves 0 and shortage 2
C9_Witness ==
    /\ Len(inv.simRows) >= 2
    /\ inv.simRows[1].beginningInventory = 4 /\ inv.simRows[1].demand = 3
    /\ inv.simRows[1].endingInventory = 1 /\ inv.simRows[1].shortage = 0
    /\ inv.simRows[2].beginningInventory = 1 /\ inv.simRows[2].demand = 3
    /\ inv.simRows[2].endingInventory = 0 /\ inv.simRows[2].shortage = 2

InvDueCount(P, cycle, day) ==
    Cardinality({k \in 1..Len(P) : P[k].arrivalCycle = cycle /\ P[k].arrivalDay = day})

\* what one day of the run may do to the order column and the pending list
InvReviewStepOK ==
    LET r == invRun'.table[Len(invRun'.table)]
        P == invRun.pendingOrders
        P2 == invRun'.pendingOrders
        kept == Len(P) - InvDueCount(P, invRun.cycle, invRun.day)
        Q == inv.inventoryLimit - r.endingInventory + r.shortage
    IN  IF r.day # inv.daysPerCycle
        THEN /\ IsNull(r.orderQuantity) /\ IsNull(r.randLeadTime)
             /\ Len(P2) = kept
             /\ \A k \in 1..Len(P2) : \E m \in 1..Len(P) : P2[k] = P[m]
        ELSE /\ r.orderQuantity = Some(Q)
             /\ Len(P2) \in {kept, kept + 1}
             /\ Len(P2) = kept + 1 => (Q > 0 /\ P2[Len(P2)].quantity = Q)
             /\ Len(P2) = kept <=> IsNull(r.randLeadTime)

\* C10: an order is computed and may be enqueued only on the last day of a
\* cycle; on any other day the row's order quantity is empty and the pending
\* list gains no order.  On a review day Q = inventoryLimit - endingInventory
\* + shortage, and an order of quantity Q is enqueued only if Q > 0.
C10_ReviewOnlyOnLastDay ==
    [][(invRun.pc = "loop" /\ invRun'.pc = "loop") => InvReviewStepOK]_vars

\* a ledger with a day that is no review, a review with Q = 0 and no order
C10_Witness ==
    /\ Len(inv.simRows) = 4
    /\ inv.daysPerCycle = 2
    /\ IsNull(inv.simRows[1].orderQuantity)
    /\ inv.simRows[2].orderQuantity = Some(0) /\ IsNull(inv.simRows[2].randLeadTime)
    /\ Val(inv.simRows[4].orderQuantity) > 0 /\ ~IsNull(inv.simRows[4].randLeadTime)

\* a review with Q < 0
C10_WitnessNegative ==
    /\ inv.simRows # <<>>
    /\ \E k \in 1..Len(inv.simRows) :
         ~IsNull(inv.simRows[k].orderQuantity) /\ Val(inv.simRows[k].orderQuantity) < 0

\* the number of lead-time digits the rows before row k have consumed
InvLeadDigitsUsed(T, k) == Cardinality({j \in 1..(k - 1) : InvPlaced(T, j)})

\* row k of T is a review that wants an order
InvWantsOrder(T, k) == ~IsNull(T[k].orderQuantity) /\ Val(T[k].orderQuantity) > 0

\* row k takes the next unused lead-time digit exactly when it is a review
\* with Q > 0 and a digit is left
InvLeadDigitAt(T, k) ==
    LET used == InvLeadDigitsUsed(T, k)
    IN  IF InvWantsOrder(T, k) /\ used < inv.leadTimeDigitCount
        THEN used < Len(inv.leadTimeDigits) /\ T[k].randLeadTime = Some(inv.leadTimeDigits[used + 1])
        ELSE IsNull(T[k].randLeadTime)

\* the step of a review day with Q > 0 and every lead-time digit used
InvExhaustedStep ==
    /\ invRun.pc = "loop" /\ invRun.cycle <= invRun.cycles
    /\ invRun.day = invRun.days
    /\ invRun.leadTimeIndex >= inv.leadTimeDigitCount
    /\ invRun'.pc = "loop"
    /\ InvWantsOrder(invRun'.table, Len(invRun'.table))

\* C11: lead-time digits are consumed only by reviews with Q > 0, one each,
\* in stream order; a review with Q > 0 that finds no unused digit enqueues
\* no order and raises no error, and the run goes on to publish all
\* cycles x daysPerCycle rows.
C11_LeadDigitExhaustionNonFatal ==
    /\ [](invRun.pc = "loop" =>
            /\ invRun.leadTimeIndex = InvLeadDigitsUsed(invRun.table, Len(invRun.table) + 1)
            /\ invRun.leadTimeIndex <= inv.leadTimeDigitCount
            /\ \A k \in 1..Len(invRun.table) : InvLeadDigitAt(invRun.table, k))
    /\ []((invRun.pc = "returned" /\ inv.error = NoError) =>
            /\ Len(inv.simRows) = inv.numCycles * inv.daysPerCycle
            /\ \A k \in 1..Len(inv.simRows) : InvLeadDigitAt(inv.simRows, k))
    /\ [][InvExhaustedStep =>
            /\ inv'.error = inv.error
            /\ Len(invRun'.table) = Len(invRun.table) + 1
            /\ IsNull(invRun'.table[Len(invRun'.table)].randLeadTime)
            /\ invRun'.leadTimeIndex = invRun.leadTimeIndex
            /\ Len(invRun'.pendingOrders) =
                 Len(invRun.pendingOrders)
                   - InvDueCount(invRun.pendingOrders, invRun.cycle, invRun.day)]_vars

\* a published ledger of four days whose first review took the only
\* lead-time digit and whose second review, with Q > 0, found none
C11_Witness ==
    /\ invRun.pc = "returned" /\ inv.error = NoError
    /\ inv.leadTimeDigitCount = 1
    /\ Len(inv.simRows) = 4 /\ inv.daysPerCycle = 2
    /\ InvPlaced(inv.simRows, 2)
    /\ InvWantsOrder(inv.simRows, 4) /\ IsNull(inv.simRows[4].randLeadTime)

(***************************************************************************)
(* The three simulators side by side: one of the pages is shown, and its   *)
(* runSimulation runs.                                                     *)
(***************************************************************************)
Mounted(page) == DOMAIN page # {}

InitSimulators == InitSingle \/ InitMulti \/ InitInventory

NextSimulators ==
    \/ Mounted(ss) /\ SSRunSimulation
    \/ Mounted(ss) /\ SSCustomerStep
    \/ Mounted(ss) /\ SSPublish
    \/ Mounted(ms) /\ MSRunSimulation
    \/ Mounted(ms) /\ MSCustomerStep
    \/ Mounted(ms) /\ MSPublish
    \/ Mounted(inv) /\ InvRunSimulation
    \/ Mounted(inv) /\ InvDayStep
    \/ Mounted(inv) /\ InvPublish

SpecSimulators == InitSimulators /\ [][NextSimulators]_vars

\* a run of the page ends in this step with an error
SSFails == Mounted(ss) /\ ssRun.pc # "returned" /\ ssRun'.pc = "returned" /\ ss'.error # NoError
MSFails == Mounted(ms) /\ msRun.pc # "returned" /\ msRun'.pc = "returned" /\ ms'.error # NoError
InvFails ==
    Mounted(inv) /\ invRun.pc # "returned" /\ invRun'.pc = "returned" /\ inv'.error # NoError

\* C12: in every simulator a run that fails has built no ledger row when it
\* fails (lead-time digit exhaustion is no failure), and it publishes no
\* ledger.
C12_ErrorsBeforeFirstRow ==
    [][/\ SSFails => ((ssRun.pc = "idle" \/ ssRun.table = <<>>) /\ ss'.simRows = <<>>)
       /\ MSFails => ((msRun.pc = "idle" \/ msRun.table = <<>>) /\ ms'.simRows = <<>>)
       /\ InvFails => ((invRun.pc = "idle" \/ invRun.table = <<>>) /\ inv'.simRows = <<>>)]_vars

\* what does hold: a failing run publishes nothing, and the only failure
\* found after rows were built is a digit that maps to no row, which is a
\* digit that is not whole
C12_FailingRunPublishesNothing ==
    [][/\ SSFails =>
            /\ ss'.simRows = <<>> /\ ss'.arrivalTable = <<>>
            /\ (ssRun.pc = "loop" =>
                  \E k \in 1..ssRun.count :
                    ~IsWhole(ssRun.serviceNums[k])
                      \/ (k < ssRun.count /\ ~IsWhole(ssRun.arrivalNums[k])))
       /\ MSFails =>
            /\ ms'.simRows = <<>>
            /\ (msRun.pc = "loop" =>
                  \E k \in 1..msRun.count :
                    ~IsWhole(msRun.serviceNums[k])
                      \/ (k < msRun.count /\ ~IsWhole(msRun.arrivalNums[k])))
       /\ InvFails =>
            /\ inv'.simRows = <<>>
            /\ (invRun.pc = "loop" =>
                  inv'.error \in {"Demand random digit could not be mapped. Check tables.",
                                  "Lead time random digit could not be mapped. Check tables."})]_vars

InsufficientDigitErrors ==
    {"Not enough arrival random digits for the requested customers",
     "Not enough service random digits for the requested customers"}

\* every typed digit is a whole number of 1..100, 0 read as 100
DigitsValid(digits) ==
    \A k \in 1..Len(digits) : IsWhole(digits[k]) /\ digits[k] >= 0 /\ digits[k] <= 100

DistValid(dist) == buildCumulative(dist, 100).error = NoError

\* the outcome of a run for count customers, given whether the
\* distributions are valid, and the digits
QueueRunOutcomeOK(count, distsValid, arrivalDigits, serviceDigits, error, simRows) ==
    IF Len(arrivalDigits) < count - 1 \/ Len(serviceDigits) < count
    THEN /\ error # NoError
         /\ simRows = <<>>
         /\ (count >= 1 /\ distsValid) => error \in InsufficientDigitErrors
    ELSE (count >= 1 /\ distsValid /\ DigitsValid(arrivalDigits) /\ DigitsValid(serviceDigits)) =>
           /\ error = NoError
           /\ Len(simRows) = count
           /\ \A k \in 1..count : simRows[k].customer = k

C13_WitnessMulti ==
    /\ Mounted(ms) /\ msRun.pc = "returned"
    /\ ms.customerCount = 3 /\ Len(ms.arrivalDigits) = 2 /\ Len(ms.serviceDigits) = 3
    /\ ms.error = NoError /\ Len(ms.simRows) = 3

\* three customers and one arrival digit: the run fails
C13_WitnessTooFew ==
    /\ Mounted(ms) /\ msRun.pc = "returned"
    /\ ms.customerCount = 3 /\ Len(ms.arrivalDigits) = 1 /\ Len(ms.serviceDigits) = 3
    /\ ms.error \in InsufficientDigitErrors /\ ms.simRows = <<>>

\* ceil(E[demand] x E[leadTime]) + 1, the expected values being the sums
\* of value x probability (probabilities in thousandths)
InvClaimedReorderPoint ==
    LET Ed == ExpectedValue(inv.demandRows, Len(inv.demandRows))
        El == ExpectedValue(inv.leadTimeRows, Len(inv.leadTimeRows))
    IN  CeilDiv(Ed * El, 1000000) + 1

InvParameterInvalid ==
    \/ inv.numCycles < 1
    \/ inv.daysPerCycle < 1
    \/ inv.initialInventory < 0
    \/ inv.inventoryLimit <= InvClaimedReorderPoint
    \/ inv.demandDigitCount < inv.numCycles * inv.daysPerCycle

\* C14: with cycles < 1, daysPerCycle < 1, initial inventory < 0,
\* inventoryLimit <= ceil(E[demand] x E[leadTime]) + 1 or fewer than
\* cycles x daysPerCycle demand digits, the inventory run builds no row,
\* ends with an error and publishes no ledger.
C14_InventoryParameterErrors ==
    InvParameterInvalid =>
      /\ invRun.pc # "loop"
      /\ inv.simRows = <<>>
      /\ invRun.pc = "returned" => inv.error # NoError

\* a finished run that failed for an inventory limit equal to the reorder point
C14_Witness ==
    /\ invRun.pc = "returned"
    /\ inv.numCycles >= 1 /\ inv.daysPerCycle >= 1 /\ inv.initialInventory >= 0
    /\ inv.inventoryLimit = InvClaimedReorderPoint
    /\ inv.error = "Inventory limit must be greater than reorder point"

\* ... for too few demand digits, every other parameter being valid
C14_WitnessDigits ==
    /\ invRun.pc = "returned"
    /\ inv.numCycles >= 1 /\ inv.daysPerCycle >= 1 /\ inv.initialInventory >= 0
    /\ inv.inventoryLimit > InvClaimedReorderPoint
    /\ inv.demandDigitCount = inv.numCycles * inv.daysPerCycle - 1
    /\ inv.error = "Not enough demand random digits"

\* ... for a negative initial inventory, and for no day in a cycle
C14_WitnessNegative ==
    /\ invRun.pc = "returned" /\ inv.error # NoError
    /\ \/ inv.initialInventory < 0 /\ inv.numCycles >= 1 /\ inv.daysPerCycle >= 1
       \/ inv.daysPerCycle < 1 /\ inv.numCycles >= 1

(***************************************************************************)
(* More claims about the table functions (SpecTable).                      *)
(***************************************************************************)
\* the rows whose range [rangeStart, rangeEnd] holds the number x
RowsHoldingDraw(rows, x) ==
    {i \in 1..Len(rows) : Floor(x) >= rows[i].rangeStart /\ Ceil(x) <= rows[i].rangeEnd}

\* the value of the first row holding x, Null when no row does
FirstRowValue(rows, x) ==
    LET holding == RowsHoldingDraw(rows, x)
    IN  IF holding = {} THEN Null
        ELSE Some(rows[CHOOSE i \in holding : \A j \in holding : i <= j].value)

\* C16: a draw of 0 maps as the draw scale does (100 for two-digit tables,
\* 10 for the lead-time table), any other draw maps to the value of the
\* first row whose range holds it, and a draw that lies in no row's range
\* is not mapped: it is not clamped to a row.
C16_ZeroIsTopOfRange ==
    (Accepted /\ tb.pc = "mapped") =>
      /\ tb.rand = 0 => tb.mapped = FirstRowValue(tb.rows, tb.scale)
      /\ tb.rand # 0 => tb.mapped = FirstRowValue(tb.rows, tb.rand)
      /\ (tb.rand # 0 /\ RowsHoldingDraw(tb.rows, tb.rand) = {}) => IsNull(tb.mapped)

\* the draw 0 got the value of the last of three rows of a two-digit table
C16_Witness ==
    /\ Accepted /\ tb.pc = "mapped" /\ tb.scale = 100 /\ tb.rand = 0
    /\ Len(tb.rows) = 3 /\ tb.rows[3].rangeStart <= 100
    /\ tb.mapped = Some(tb.rows[3].value)

\* ... and of the one-digit table
C16_WitnessLeadTime ==
    /\ Accepted /\ tb.pc = "mapped" /\ tb.scale = 10 /\ tb.rand = 0
    /\ Len(tb.rows) = 2 /\ tb.rows[2].rangeStart <= 10
    /\ tb.mapped = Some(tb.rows[2].value)

\* draws that no row holds: above the scale, below 1, between two rows
C16_WitnessNotMapped ==
    /\ Accepted /\ tb.pc = "mapped" /\ IsNull(tb.mapped)
    /\ tb.rand \in {tb.scale + 1, -1, Half(5)}

(***************************************************************************)
(* utils/rng.ts: the generators, one call at a time.                       *)
(* rng holds the arguments of the call, the locals current and nums, the   *)
(* loop counter i and the result.                                          *)
(***************************************************************************)
\* the value that is not a number
NaN == 0 - HalfBase

\* x % m of JavaScript for whole numbers: the remainder of the division
\* truncated towards zero, which has the sign of x; NaN when m is 0
JsRem(x, m) ==
    IF x = NaN \/ m = NaN \/ m = 0 THEN NaN
    ELSE IF x >= 0 THEN x % Abs(m)
    ELSE 0 - ((0 - x) % Abs(m))

\* the step without the reduction by m
lcgNext_NoModulus(current, a, c, m) == a * current + c

\* current = (a * current + c) % m
lcgNext(current, a, c, m) ==
    IF current = NaN THEN NaN ELSE JsRem(a * current + c, m)

lcgModulusInvalid_ZeroAllowed(m) == m < 0

\* if (m <= 0) return { numbers: [], error: ... }
lcgModulusInvalid(m) == m <= 0

(***************************************************************************)
(* JavaScript numbers of middleSquare.  A square of a seed of more than    *)
(* nine digits does not fit a TLC integer, so the whole numbers of         *)
(* middleSquare are held as sequences of decimal digits, most significant  *)
(* first, and NaN as the empty sequence; strings are sequences of          *)
(* one-character strings.  A number is a double: a product is rounded to   *)
(* 53 bits, and toString writes a number of 10^21 or more in exponent      *)
(* form with the fewest digits that read back as the same double.          *)
(***************************************************************************)
\* An operator of this arithmetic names the values of its arguments
\* ({... : a \in {x}}) before it uses them: an argument is worked out once.
Reverse(s) == CHOOSE r \in {[i \in 1..Len(a) |-> a[Len(a) + 1 - i]] : a \in {s}} : TRUE

\* a digit sequence without its leading zeros
BigTrim(x) ==
    CHOOSE r \in
      { LET nonzero == {i \in 1..Len(a) : a[i] # 0}
            from == IF nonzero = {} THEN Max(Len(a), 1)
                    ELSE CHOOSE i \in nonzero : \A j \in nonzero : i <= j
        IN  SubSeq(a, from, Len(a)) : a \in {x} } : TRUE

RECURSIVE Big(_)
\* the digits of a whole number n >= 0, most significant first
Big(n) == IF n < 10 THEN <<n>> ELSE Append(Big(n \div 10), n % 10)

\* x < y on digit sequences without leading zeros
BigLess(x, y) ==
    CHOOSE r \in
      { IF Len(a) # Len(b) THEN Len(a) < Len(b)
        ELSE LET differ == {i \in 1..Len(a) : a[i] # b[i]}
             IN  \E i \in differ : (\A j \in differ : i <= j) /\ a[i] < b[i] :
        a \in {x}, b \in {y} } : TRUE

RECURSIVE CarryRun(_, _, _, _)
\* the digits, least significant first, of the columns cols[lo..hi] taken
\* with the carry that comes in, and the carry that goes out; a negative
\* column sum borrows.  The columns are halved rather than walked.
CarryRun(cols, lo, hi, carry) ==
    IF lo > hi THEN [out |-> <<>>, carry |-> carry]
    ELSE IF lo = hi
    THEN LET s == cols[lo] + carry
         IN  IF s < 0 THEN [out |-> <<s + 10>>, carry |-> -1]
             ELSE [out |-> <<s % 10>>, carry |-> s \div 10]
    ELSE LET mid == (lo + hi) \div 2
             low == CarryRun(cols, lo, mid, carry)
             high == CarryRun(cols, mid + 1, hi, low.carry)
         IN  [out |-> low.out \o high.out, carry |-> high.carry]

\* the whole number of the columns cols[1..n], column k worth 10^(k-1)
BigOfColumns(cols, n) ==
    CHOOSE r \in
      { BigTrim((IF run.carry = 0 THEN <<>> ELSE Big(run.carry)) \o Reverse(run.out)) :
        run \in {CarryRun(cols, 1, n, 0)} } : TRUE

\* the digit of x worth 10^(k-1), 0 beyond its length
DigitAt(x, k) == IF k <= Len(x) THEN x[Len(x) + 1 - k] ELSE 0

BigAdd(x, y) ==
    CHOOSE r \in
      { BigOfColumns([k \in 1..Max(Len(a), Len(b)) |-> DigitAt(a, k) + DigitAt(b, k)],
                     Max(Len(a), Len(b))) :
        a \in {x}, b \in {y} } : TRUE

\* x - y for x >= y
BigSub(x, y) ==
    CHOOSE r \in
      { BigOfColumns([k \in 1..Len(a) |-> DigitAt(a, k) - DigitAt(b, k)], Len(a)) :
        a \in {x}, b \in {y} } : TRUE

RECURSIVE ColumnSum(_, _, _, _)
\* the sum of the digit i of x times the digit k + 1 - i of y over i = 1..to
ColumnSum(x, y, k, to) ==
    IF to < 1 \/ to < k + 1 - Len(y) THEN 0
    ELSE DigitAt(x, to) * DigitAt(y, k + 1 - to) + ColumnSum(x, y, k, to - 1)

BigMul(x, y) ==
    CHOOSE r \in
      { BigOfColumns([k \in 1..(Len(a) + Len(b) - 1) |->
                        ColumnSum(a, b, k, Min(k, Len(a)))],
                     Len(a) + Len(b) - 1) :
        a \in {x}, b \in {y} } : TRUE

\* x times a whole number n below 2 * 10^8
BigMulSmall(x, n) ==
    CHOOSE r \in
      { BigOfColumns([k \in 1..Len(a) |-> DigitAt(a, k) * f], Len(a)) :
        a \in {x}, f \in {n} } : TRUE

RECURSIVE BigTimesPow2(_, _)
\* x * 2^e
BigTimesPow2(x, e) ==
    CHOOSE r \in
      { IF j <= 20 THEN BigMulSmall(a, 2^j)
        ELSE BigTimesPow2(BigMulSmall(a, 2^20), j - 20) :
        a \in {x}, j \in {e} } : TRUE

RECURSIVE DivRun(_, _, _, _, _)
\* the digits of floor(x[lo..hi] / d), the most significant first, with the
\* remainder that comes in from the left, and the remainder that is left,
\* for a divisor d below 2 * 10^8
DivRun(x, d, lo, hi, rem) ==
    IF lo > hi THEN [out |-> <<>>, rem |-> rem]
    ELSE IF lo = hi
    THEN LET cur == rem * 10 + x[lo]
         IN  [out |-> <<cur \div d>>, rem |-> cur % d]
    ELSE LET mid == (lo + hi) \div 2
             left == DivRun(x, d, lo, mid, rem)
             right == DivRun(x, d, mid + 1, hi, left.rem)
         IN  [out |-> left.out \o right.out, rem |-> right.rem]

\* floor(x / d) for a divisor d below 2 * 10^8
BigDivSmall(x, d) ==
    CHOOSE r \in {BigTrim(DivRun(a, n, 1, Len(a), 0).out) : a \in {x}, n \in {d}} : TRUE

BigHalf(x) == BigDivSmall(x, 2)
BigOdd(x) == CHOOSE r \in {a[Len(a)] % 2 = 1 : a \in {x}} : TRUE

\* x mod d for a divisor d below 2 * 10^8
BigModSmall(x, d) ==
    CHOOSE r \in {DivRun(a, n, 1, Len(a), 0).rem : a \in {x}, n \in {d}} : TRUE

RECURSIVE BigDivPow2(_, _)
\* floor(x / 2^j)
BigDivPow2(x, j) ==
    CHOOSE r \in
      { IF i = 0 THEN a
        ELSE IF i <= 20 THEN BigDivSmall(a, 2^i)
        ELSE BigDivPow2(BigDivSmall(a, 2^20), i - 20) :
        a \in {x}, i \in {j} } : TRUE

Two53 == <<9,0,0,7,1,9,9,2,5,4,7,4,0,9,9,2>>
Two54 == <<1,8,0,1,4,3,9,8,5,0,9,4,8,1,9,8,4>>

RECURSIVE Halvings(_)
\* the number of times x is halved to come below 2^54; 20 and 4 halvings
\* at a time while x is large enough for that
Halvings(x) ==
    CHOOSE r \in
      { IF BigLess(a, Two54) THEN 0
        ELSE IF Len(a) >= 24 THEN 20 + Halvings(BigDivSmall(a, 2^20))
        ELSE IF Len(a) >= 19 THEN 4 + Halvings(BigDivSmall(a, 2^4))
        ELSE 1 + Halvings(BigHalf(a)) :
        a \in {x} } : TRUE

\* the double nearest to the whole number x, ties to even
RoundToDouble(x) ==
    CHOOSE d \in
      { IF BigLess(a, Two53) THEN a
        ELSE CHOOSE u \in
          { CHOOSE v \in
              { LET sticky == BigTimesPow2(m, e) # a
                    q == BigHalf(m)
                    up == BigOdd(m) /\ (sticky \/ BigOdd(q))
                IN  BigTimesPow2(IF up THEN BigAdd(q, <<1>>) ELSE q, e + 1) :
                m \in {BigDivPow2(a, e)} } : TRUE :
            e \in {Halvings(a)} } : TRUE :
        a \in {x} } : TRUE

Zeros(n) == [i \in 1..n |-> 0]

RECURSIVE StripZeros(_)
StripZeros(x) ==
    CHOOSE r \in
      { IF Len(a) > 1 /\ a[Len(a)] = 0 THEN StripZeros(SubSeq(a, 1, Len(a) - 1)) ELSE a :
        a \in {x} } : TRUE

BigDist(x, y) ==
    CHOOSE r \in
      {IF BigLess(a, b) THEN BigSub(b, a) ELSE BigSub(a, b) : a \in {x}, b \in {y}} : TRUE

\* the decimal numbers of k significant digits next to x that read back as x
ShortCandidates(x, k) ==
    CHOOSE r \in
      { {c \in {SubSeq(a, 1, k) \o Zeros(Len(a) - k),
                BigAdd(SubSeq(a, 1, k), <<1>>) \o Zeros(Len(a) - k)} :
           RoundToDouble(c) = a} :
        a \in {x} } : TRUE

RECURSIVE Shortest(_, _)
\* the shortest decimal number that reads back as the double x
Shortest(x, k) ==
    CHOOSE r \in
      { IF k >= Len(a) THEN a
        ELSE CHOOSE s \in
          { IF cs = {} THEN Shortest(a, k + 1)
            ELSE CHOOSE c \in cs : \A o \in cs : ~BigLess(BigDist(o, a), BigDist(c, a)) :
            cs \in {ShortCandidates(a, k)} } : TRUE :
        a \in {x} } : TRUE

DigitChars == <<"0", "1", "2", "3", "4", "5", "6", "7", "8", "9">>
Chars(x) == CHOOSE r \in {[i \in 1..Len(a) |-> DigitChars[a[i] + 1]] : a \in {x}} : TRUE

BigNaN == <<>>

\* Number.prototype.toString of a whole double x >= 0 or NaN
NumberToString(x) ==
    CHOOSE r \in
      { IF a = BigNaN THEN <<"N", "a", "N">>
        ELSE IF Len(a) <= 21 THEN Chars(a)
        ELSE CHOOSE t \in
          { CHOOSE u \in
              { <<DigitChars[sig[1] + 1]>>
                  \o (IF Len(sig) > 1 THEN <<".">> \o Chars(Tail(sig)) ELSE <<>>)
                  \o <<"e", "+">> \o Chars(Big(Len(c) - 1)) :
                sig \in {StripZeros(c)} } : TRUE :
            c \in {Shortest(a, 1)} } : TRUE :
        a \in {x} } : TRUE

padStart(s, targetLength) ==
    CHOOSE r \in
      { IF Len(a) >= targetLength THEN a
        ELSE [i \in 1..(targetLength - Len(a)) |-> "0"] \o a :
        a \in {s} } : TRUE

\* s.substring(start, end), 0-based, end exclusive
substring(s, start, end) ==
    CHOOSE r \in
      { SubSeq(t, (IF start > Len(t) THEN Len(t) ELSE start) + 1,
                  IF end > Len(t) THEN Len(t) ELSE end) :
        t \in {s} } : TRUE

CharDigit(ch) == CHOOSE d \in 0..9 : DigitChars[d + 1] = ch
IsDigitChar(ch) == \E d \in 0..9 : DigitChars[d + 1] = ch

RECURSIVE LeadingDigits(_)
LeadingDigits(s) ==
    CHOOSE r \in
      { IF t = <<>> \/ ~IsDigitChar(Head(t)) THEN <<>>
        ELSE <<CharDigit(Head(t))>> \o LeadingDigits(Tail(t)) :
        t \in {s} } : TRUE

\* parseInt(s, 10) of a string without a minus sign
parseInt(s) ==
    CHOOSE r \in
      { IF ds = <<>> THEN BigNaN ELSE RoundToDouble(BigTrim(ds)) :
        ds \in { CHOOSE d \in
                   {LeadingDigits(IF t # <<>> /\ Head(t) = "+" THEN Tail(t) ELSE t) :
                      t \in {s}} : TRUE } } : TRUE

\* the step of a mid-square method that leaves 0 again
middleSquareNext_Unstuck(current, digits) ==
    LET sq == IF current = BigNaN THEN BigNaN ELSE RoundToDouble(BigMul(current, current))
        s == padStart(NumberToString(sq), digits * 2)
        start == digits \div 2
        mid == substring(s, start, start + digits)
    IN  IF current = <<0>> THEN <<1>> ELSE parseInt(mid)

\* one pass of the loop of middleSquare: the square, written out and padded
\* on the left to 2 * digits characters, its characters start ..
\* start + digits - 1, read as a number
middleSquareNext(current, digits) ==
    LET sq == IF current = BigNaN THEN BigNaN ELSE RoundToDouble(BigMul(current, current))
        s == padStart(NumberToString(sq), digits * 2)
        start == digits \div 2
        mid == substring(s, start, start + digits)
    IN  parseInt(mid)

(***************************************************************************)
(* normalizeValues.  v / sourceMax and its product with scaleTo are        *)
(* doubles: each is rounded to 53 bits before Math.round sees it.  A       *)
(* double that is not whole is held as m / 2^e, m a digit sequence.        *)
(***************************************************************************)
RECURSIVE BigToInt(_)
\* the whole number of a digit sequence, when it is below 2^31
BigToInt(x) ==
    CHOOSE r \in
      { IF a = <<>> THEN 0 ELSE BigToInt(SubSeq(a, 1, Len(a) - 1)) * 10 + a[Len(a)] :
        a \in {x} } : TRUE

RECURSIVE BitLength(_)
\* the number of bits of a whole number n >= 1
BitLength(n) == IF n < 2 THEN 1 ELSE 1 + BitLength(n \div 2)

RECURSIVE QuotientBits(_, _, _)
\* the first 54 bits of v / d for v, d > 0: floor(v * 2^k / d) for the
\* least k, looked for from k on, that takes it to 2^53 or more, and
\* whether a remainder is left
QuotientBits(v, d, k) ==
    CHOOSE r \in
      { CHOOSE s \in
          { IF ~BigLess(q, Two53) THEN [q |-> q, sticky |-> BigModSmall(n, d) # 0, k |-> k]
            ELSE QuotientBits(v, d, k + 1) :
            q \in {BigDivSmall(n, d)} } : TRUE :
        n \in {BigTimesPow2(Big(v), k)} } : TRUE

\* the double v / d for whole v, d > 0, as m / 2^e
DoubleDivide(v, d) ==
    CHOOSE r \in
      { LET h == BigHalf(b.q)
            up == BigOdd(b.q) /\ (b.sticky \/ BigOdd(h))
        IN  [m |-> IF up THEN BigAdd(h, <<1>>) ELSE h, e |-> b.k - 1] :
        b \in {QuotientBits(v, d, Max(0, 52 - BitLength(v) + BitLength(d)))} } : TRUE

\* the double x * n for a whole n > 0
DoubleTimes(x, n) ==
    CHOOSE r \in {[m |-> RoundToDouble(BigMulSmall(a.m, n)), e |-> a.e] : a \in {x}} : TRUE

\* Math.round of the double m / 2^e, or of its negative
MathRound(x, negative) ==
    CHOOSE r \in
      { IF a.e = 0 THEN (IF negative THEN 0 - BigToInt(a.m) ELSE BigToInt(a.m))
        ELSE CHOOSE s \in
          { LET floor == BigToInt(BigHalf(h))
                half == BigOdd(h)
                more == a.m # BigTimesPow2(h, a.e - 1)
            IN  IF negative THEN 0 - (floor + (IF half /\ more THEN 1 ELSE 0))
                ELSE floor + (IF half THEN 1 ELSE 0) :
            h \in {BigDivPow2(a.m, a.e - 1)} } : TRUE :
        a \in {x} } : TRUE

\* the callback of the map: Math.round((v / sourceMax) * scaleTo) for whole
\* v, scaleTo > 0 and sourceMax > 0
normalizeValue(v, scaleTo, sourceMax) ==
    IF v = 0 THEN 0
    ELSE LET a == IF v < 0 THEN 0 - v ELSE v
             normalized == DoubleDivide(a, sourceMax)
         IN  MathRound(DoubleTimes(normalized, scaleTo), v < 0)

\* values.map(v => Math.round((v / sourceMax) * scaleTo))
normalizeValues(values, scaleTo, sourceMax) ==
    [i \in 1..Len(values) |-> normalizeValue(values[i], scaleTo, sourceMax)]

LcgSeeds == {-3, 0, 1, 2, 7}
LcgMultipliers == {-2, 0, 1, 2, 3}
LcgIncrements == {-3, 0, 1, 3}
LcgModuli == {-1, 0, 1, 2, 3, 5}
RngCounts == {-1, 0, 1, 2, MaxGen}
\* seeds and digits of the mid-square method: 12 runs through eight values
\* to 0, 10 gives 1 and then 0, 2500 and 50 give themselves
\* (seed, digits) of the calls of middleSquare: seeds of one to five
\* digits, and seeds whose square is beyond 2^53 and beyond 10^21
MidSquareCalls ==
    {<<Big(12), 2>>, <<Big(50), 2>>, <<Big(3), 2>>, <<Big(0), 4>>, <<Big(10), 4>>,
     <<Big(2500), 4>>, <<Big(1234), 4>>, <<Big(540), 3>>, <<Big(7), 1>>, <<Big(12345), 4>>,
     <<Big(840403000), 9>>,
     <<<<4, 1, 9, 4, 3, 0, 4, 0, 0, 0, 0>>, 12>>,
     <<<<9, 5, 2, 7, 0, 5, 7, 1, 3, 9, 7, 2>>, 13>>}

\* the arguments, locals and result of a call of middleSquare
MiddleSquareFrame(seed, digits, count) ==
    [fn |-> "middleSquare", seed |-> seed, digits |-> digits, count |-> count,
     pc |-> "call", i |-> 0, current |-> seed, nums |-> <<>>,
     numbers |-> <<>>, error |-> NoError]

\* raw numbers handed to normalizeValues: below sourceMax, at an exact half
\* of the scale (1450 and 3750 of 10000 to 100), beyond sourceMax, negative
NormValues == {-3750, 0, 5, 1450, 3740, 3750, 9999, 12000}
\* sourceMax: 10^digits of the mid-square method, m of the congruential one
NormSourceMaxes == {8, 1000, 10000}
NormScales == {10, 100}
NormLists == UNION {[1..n -> NormValues] : n \in 0..MaxValues}

\* the arguments and result of a call of normalizeValues
NormalizeFrame(values, scaleTo, sourceMax) ==
    [fn |-> "normalizeValues", values |-> values, scaleTo |-> scaleTo,
     sourceMax |-> sourceMax, pc |-> "call", result |-> <<>>]

RngCall(fn, seed, a, c, m, digits, count) ==
    [fn |-> fn, seed |-> seed, a |-> a, c |-> c, m |-> m, digits |-> digits, count |-> count,
     pc |-> "call", i |-> 0, current |-> seed, nums |-> <<>>,
     numbers |-> <<>>, error |-> NoError]

InitRng ==
    /\ rng \in {RngCall("lcg", z0, a, c, m, 0, count) :
                   z0 \in LcgSeeds, a \in LcgMultipliers, c \in LcgIncrements,
                   m \in LcgModuli, count \in RngCounts}
               \cup {MiddleSquareFrame(sd[1], sd[2], count) :
                        sd \in MidSquareCalls, count \in RngCounts}
               \cup {NormalizeFrame(values, scaleTo, sourceMax) :
                        values \in NormLists, scaleTo \in NormScales,
                        sourceMax \in NormSourceMaxes}
    /\ tb = Unmounted
    /\ ss = Unmounted /\ ssRun = Unmounted
    /\ ms = Unmounted /\ msRun = Unmounted
    /\ inv = Unmounted /\ invRun = Unmounted
    /\ test = Unmounted /\ earlier = Unmounted

\* lcg up to its loop
LcgCall ==
    /\ rng.pc = "call" /\ rng.fn = "lcg"
    /\ IF lcgModulusInvalid(rng.m)
       THEN rng' = [rng EXCEPT !.pc = "returned", !.numbers = <<>>,
                               !.error = "Modulus m must be > 0"]
       ELSE rng' = [rng EXCEPT !.pc = "loop"]
    /\ UNCHANGED <<tb, ss, ssRun, ms, msRun, inv, invRun, test, earlier>>

\* one pass of the loop of lcg
LcgStep ==
    /\ rng.pc = "loop" /\ rng.fn = "lcg"
    /\ rng.i < rng.count
    /\ LET current == lcgNext(rng.current, rng.a, rng.c, rng.m)
       IN  rng' = [rng EXCEPT !.current = current, !.nums = Append(@, current), !.i = @ + 1]
    /\ UNCHANGED <<tb, ss, ssRun, ms, msRun, inv, invRun, test, earlier>>

\* middleSquare up to its loop
MiddleSquareCall ==
    /\ rng.pc = "call" /\ rng.fn = "middleSquare"
    /\ rng' = [rng EXCEPT !.pc = "loop"]
    /\ UNCHANGED <<tb, ss, ssRun, ms, msRun, inv, invRun, test, earlier>>

\* one pass of the loop of middleSquare
MiddleSquareStep ==
    /\ rng.pc = "loop" /\ rng.fn = "middleSquare"
    /\ rng.i < rng.count
    /\ LET current == middleSquareNext(rng.current, rng.digits)
       IN  rng' = [rng EXCEPT !.current = current, !.nums = Append(@, current), !.i = @ + 1]
    /\ UNCHANGED <<tb, ss, ssRun, ms, msRun, inv, invRun, test, earlier>>

\* return { numbers: nums }
RngReturn ==
    /\ rng.pc = "loop"
    /\ rng.i >= rng.count
    /\ rng' = [rng EXCEPT !.pc = "returned", !.numbers = rng.nums]
    /\ UNCHANGED <<tb, ss, ssRun, ms, msRun, inv, invRun, test, earlier>>

\* normalizeValues
NormalizeValuesCall ==
    /\ rng.pc = "call" /\ rng.fn = "normalizeValues"
    /\ rng' = [rng EXCEPT !.pc = "returned",
                          !.result = normalizeValues(rng.values, rng.scaleTo, rng.sourceMax)]
    /\ UNCHANGED <<tb, ss, ssRun, ms, msRun, inv, invRun, test, earlier>>

NextRng == LcgCall \/ LcgStep \/ MiddleSquareCall \/ MiddleSquareStep \/ RngReturn \/ NormalizeValuesCall

SpecRng == InitRng /\ [][NextRng]_vars

(***************************************************************************)
(* JavaScript numbers of the statistical tests.  A number is the record    *)
(* [neg, m, e] of the double (-1)^neg * m * 2^e with 2^52 <= m < 2^53, m a *)
(* digit sequence; zero is m = 0 with e = 0, NaN is m = <<>> with e = 0    *)
(* and Infinity is m = <<>> with e = 1.  Sums, products and quotients are  *)
(* rounded to the nearest double, ties to even.  No modelled call does     *)
(* arithmetic on Infinity or leaves the range of normal doubles.           *)
(***************************************************************************)
Two52 == <<4,5,0,3,5,9,9,6,2,7,3,7,0,4,9,6>>
FZero == [neg |-> FALSE, m |-> <<0>>, e |-> 0]
FNaN == [neg |-> FALSE, m |-> <<>>, e |-> 0]
FInfinity(neg) == [neg |-> neg, m |-> <<>>, e |-> 1]
FIsNaN(x) == x.m = <<>> /\ x.e = 0
FIsZero(x) == x.m = <<0>>

RECURSIVE BigBitLength(_)
\* the number of bits of a whole number x >= 1
BigBitLength(x) ==
    CHOOSE r \in
      { IF Len(a) <= 9 THEN BitLength(BigToInt(a))
        ELSE 20 + BigBitLength(BigDivSmall(a, 2^20)) :
        a \in {x} } : TRUE

\* the quotient of cur by y > 0, known to be below 1000: from the leading
\* digits of both, which give it or one less
QuotientChunk(cur, y) ==
    CHOOSE r \in
      { LET drop == Max(Len(b) - 6, 0)
            yt == BigToInt(SubSeq(b, 1, Len(b) - drop))
            ct == IF Len(a) <= drop THEN 0 ELSE BigToInt(SubSeq(a, 1, Len(a) - drop))
            c0 == IF drop = 0 THEN ct \div yt ELSE ct \div (yt + 1)
        IN  CHOOSE c \in c0..(c0 + 2) : /\ ~BigLess(a, BigMulSmall(b, c))
                                        /\ BigLess(a, BigMulSmall(b, c + 1)) :
        a \in {cur}, b \in {y} } : TRUE

RECURSIVE BigDivMod(_, _)
\* quotient, with leading zeros, and remainder of x by y > 0, three digits
\* of x at a time
BigDivMod(x, y) ==
    CHOOSE r \in
      { IF Len(a) < Len(b)
        THEN [q |-> <<0>>, r |-> IF a = <<>> THEN <<0>> ELSE BigTrim(a)]
        ELSE CHOOSE s \in
          { CHOOSE t \in
              { CHOOSE u \in
                  { [q |-> p.q \o Zeros(Min(3, Len(a)) - Len(Big(c))) \o Big(c),
                     r |-> BigSub(cur, BigMulSmall(b, c))] :
                    c \in {QuotientChunk(cur, b)} } : TRUE :
                cur \in {BigTrim(p.r \o SubSeq(a, Len(a) - Min(3, Len(a)) + 1, Len(a)))} } : TRUE :
            p \in {BigDivMod(SubSeq(a, 1, Len(a) - Min(3, Len(a))), b)} } : TRUE :
        a \in {x}, b \in {y} } : TRUE

\* the double nearest to (-1)^neg * M * 2^e, ties to even
FRound(neg, M, e) ==
    CHOOSE r \in
      { IF mant = <<0>> THEN FZero
        ELSE CHOOSE d \in
          { IF L <= 53
            THEN [neg |-> neg, m |-> BigTimesPow2(mant, 53 - L), e |-> e - (53 - L)]
            ELSE CHOOSE u \in
              { LET sticky == BigTimesPow2(q, L - 54) # mant
                    h == BigHalf(q)
                    up == BigOdd(q) /\ (sticky \/ BigOdd(h))
                IN  CHOOSE v \in
                      { IF rounded = Two53
                        THEN [neg |-> neg, m |-> Two52, e |-> e + (L - 53) + 1]
                        ELSE [neg |-> neg, m |-> rounded, e |-> e + (L - 53)] :
                        rounded \in {IF up THEN BigAdd(h, <<1>>) ELSE h} } : TRUE :
                q \in {BigDivPow2(mant, L - 54)} } : TRUE :
            L \in {BigBitLength(mant)} } : TRUE :
        mant \in {M} } : TRUE

\* a whole number as a double
FromInt(n) == FRound(n < 0, Big(IF n < 0 THEN 0 - n ELSE n), 0)

FNeg(x) ==
    CHOOSE r \in {IF a.m = <<>> \/ FIsZero(a) THEN a ELSE [a EXCEPT !.neg = ~@] : a \in {x}} : TRUE
FAbs(x) == [x EXCEPT !.neg = FALSE]

\* x + y
FAdd(x, y) ==
    CHOOSE r \in
      { IF FIsNaN(a) \/ FIsNaN(b) THEN FNaN
        ELSE IF FIsZero(a) THEN b
        ELSE IF FIsZero(b) THEN a
        ELSE CHOOSE s \in
          { IF a.neg = b.neg THEN FRound(a.neg, BigAdd(X, Y), Min(a.e, b.e))
            ELSE IF X = Y THEN FZero
            ELSE IF BigLess(X, Y) THEN FRound(b.neg, BigSub(Y, X), Min(a.e, b.e))
            ELSE FRound(a.neg, BigSub(X, Y), Min(a.e, b.e)) :
            X \in {BigTimesPow2(a.m, a.e - Min(a.e, b.e))},
            Y \in {BigTimesPow2(b.m, b.e - Min(a.e, b.e))} } : TRUE :
        a \in {x}, b \in {y} } : TRUE

\* x - y
FSub(x, y) == FAdd(x, FNeg(y))

\* x * y
FMul(x, y) ==
    CHOOSE r \in
      { IF FIsNaN(a) \/ FIsNaN(b) THEN FNaN
        ELSE IF FIsZero(a) \/ FIsZero(b) THEN FZero
        ELSE FRound(a.neg # b.neg, BigMul(a.m, b.m), a.e + b.e) :
        a \in {x}, b \in {y} } : TRUE

\* x / y: 56 bits of the quotient and one more for what is left over
FDiv(x, y) ==
    CHOOSE r \in
      { IF FIsNaN(a) \/ FIsNaN(b) THEN FNaN
        ELSE IF FIsZero(b) THEN (IF FIsZero(a) THEN FNaN ELSE FInfinity(a.neg))
        ELSE IF FIsZero(a) THEN FZero
        ELSE CHOOSE q \in
          { FRound(a.neg # b.neg,
                   BigAdd(BigMulSmall(BigTrim(d.q), 2),
                          IF d.r = <<0>> THEN <<0>> ELSE <<1>>),
                   a.e - b.e - 56) :
            d \in {BigDivMod(BigTimesPow2(a.m, 55), b.m)} } : TRUE :
        a \in {x}, b \in {y} } : TRUE

\* x / n for a whole number n >= 0 below 2 * 10^8: the quotient of the
\* significand by n with three bits to spare, and one more for what is left
FDivInt(x, n) ==
    CHOOSE r \in
      { IF FIsNaN(a) THEN FNaN
        ELSE IF d = 0 THEN (IF FIsZero(a) THEN FNaN ELSE FInfinity(a.neg))
        ELSE IF FIsZero(a) THEN FZero
        ELSE CHOOSE q \in
          { FRound(a.neg,
                   BigAdd(BigMulSmall(BigDivSmall(num, d), 2),
                          IF BigModSmall(num, d) = 0 THEN <<0>> ELSE <<1>>),
                   a.e - (BitLength(d) + 3) - 1) :
            num \in {BigTimesPow2(a.m, BitLength(d) + 3)} } : TRUE :
        a \in {x}, d \in {n} } : TRUE

\* x < y on magnitudes
FMagLess(x, y) ==
    CHOOSE r \in
      { IF FIsZero(b) THEN FALSE
        ELSE IF FIsZero(a) THEN TRUE
        ELSE a.e < b.e \/ (a.e = b.e /\ BigLess(a.m, b.m)) :
        a \in {x}, b \in {y} } : TRUE

\* x < y
FLess(x, y) ==
    CHOOSE r \in
      { IF FIsNaN(a) \/ FIsNaN(b) THEN FALSE
        ELSE IF a.neg # b.neg THEN a.neg
        ELSE IF a.neg THEN FMagLess(b, a) ELSE FMagLess(a, b) :
        a \in {x}, b \in {y} } : TRUE

\* x <= y
FLessEq(x, y) ==
    CHOOSE r \in {~FIsNaN(a) /\ ~FIsNaN(b) /\ ~FLess(b, a) : a \in {x}, b \in {y}} : TRUE

\* Number("n/d") for a decimal text worth n / d: the nearest double
FromDecimal(n, d) == FDivInt(FromInt(n), d)

\* Math.pow(x, 2): the square where a double holds it, and otherwise the
\* nearest double moved by ulps units in the last place, the precision of
\* Math.pow being left to the implementation
MathPowSquare(x, ulps) ==
    CHOOSE p \in
      { IF FIsNaN(a) THEN FNaN
        ELSE IF FIsZero(a) THEN FZero
        ELSE CHOOSE q \in
          { CHOOSE s \in
              { IF BigTimesPow2(r.m, r.e - 2 * a.e) = M \/ ulps = 0 THEN r
                ELSE IF ulps > 0
                THEN (IF BigAdd(r.m, <<1>>) = Two53
                      THEN [r EXCEPT !.m = Two52, !.e = @ + 1]
                      ELSE [r EXCEPT !.m = BigAdd(@, <<1>>)])
                ELSE (IF r.m = Two52
                      THEN [r EXCEPT !.m = BigSub(Two53, <<1>>), !.e = @ - 1]
                      ELSE [r EXCEPT !.m = BigSub(@, <<1>>)]) :
                r \in {FRound(FALSE, M, 2 * a.e)} } : TRUE :
            M \in {BigMul(a.m, a.m)} } : TRUE :
        a \in {x} } : TRUE

(***************************************************************************)
(* The statistical tests (part_000): calculateChiSquare and                *)
(* calculateDependency.  The numbers are the doubles of decimal texts of   *)
(* three places, kept beside them in thousandths.                          *)
(***************************************************************************)
\* Number(text) of the texts worth decimals[i] / 1000
NumbersOf(decimals) == [i \in 1..Len(decimals) |-> FromDecimal(decimals[i], 1000)]

\* getChiSquareCriticalValue for df >= 1 in millionths, as the code computes
\* it: rows are alpha = 0.05, alpha = 0.01 and alpha = 0.98, columns
\* df = 1..9
ChiCriticalMillionths ==
    [a \in {50, 10, 980} |->
       IF a = 50
       THEN <<3841459, 5991465, 7775003, 9456050, 11043946, 12568620,
              14046833, 15489065, 16902374>>
       ELSE IF a = 10
       THEN <<6634897, 9210340, 11369058, 13305727, 15117095, 16843272,
              18506664, 20121290, 21696605>>
       ELSE <<628, 40405, 148252, 390287, 713586, 1097870,
              1529676, 1999716, 2501324>>]

\* the critical value with the Wilson-Hilferty form taken for every df >= 1
getChiSquareCriticalValue_WilsonHilfertyOnly(df, alpha) ==
    IF df < 1 THEN FZero
    ELSE IF df > 2 THEN FromDecimal(ChiCriticalMillionths[alpha][df], 1000000)
    ELSE IF alpha = 50 THEN FromDecimal(<<3746764, 5936870>>[df], 1000000)
    ELSE IF alpha = 10 THEN FromDecimal(<<6585773, 9220505>>[df], 1000000)
    ELSE FromDecimal(<<-6899, 17056>>[df], 1000000)

\* the critical value for df degrees of freedom at alpha thousandths
getChiSquareCriticalValue(df, alpha) ==
    IF df < 1 THEN FZero ELSE FromDecimal(ChiCriticalMillionths[alpha][df], 1000000)

\* the branch of getNormInverse taken for p: p_low is 0.02425 and p_high
\* is 1 - p_low
getNormInverseBranch(p) ==
    LET p_low == FromDecimal(2425, 100000)
        p_high == FSub(FromInt(1), p_low)
    IN  IF FLess(p, p_low) THEN "lower"
        ELSE IF FLess(p_high, p) THEN "upper"
        ELSE "central"

\* the argument getChiSquareCriticalValue hands to getNormInverse, none for
\* df < 1 and for df = 2
ChiCriticalInverseOf(df, alpha) ==
    LET a == FromDecimal(alpha, 1000)
        p == FSub(FromInt(1), a)
    IN  IF df < 1 THEN <<>>
        ELSE IF df = 1 THEN <<FSub(FromInt(1), FDivInt(a, 2))>>
        ELSE IF df = 2 THEN <<>>
        ELSE <<p>>

\* the last interval counted without 1.0
ChiCounted_HalfOpen(n, start, end, last) == FLessEq(start, n) /\ FLess(n, end)

\* n >= start && (i === k - 1 ? n <= end : n < end)
ChiCounted(n, start, end, last) ==
    FLessEq(start, n) /\ (IF last THEN FLessEq(n, end) ELSE FLess(n, end))

\* uniform also when the statistic equals the critical value
ChiDecision_NotStrict(chiStat, criticalValue) == FLessEq(chiStat, criticalValue)

\* isUniform = chiStat < criticalValue
ChiDecision(chiStat, criticalValue) == FLess(chiStat, criticalValue)

\* the arguments, locals and result of a call of calculateChiSquare
ChiSquareFrame(decimals, k, alpha, powUlps) ==
    [fn |-> "calculateChiSquare", decimals |-> decimals, numbers |-> NumbersOf(decimals),
     k |-> k, alpha |-> alpha, powUlps |-> powUlps, pc |-> "call", i |-> 0,
     N |-> 0, Ei |-> FZero, chiStat |-> FZero, intervals |-> <<>>,
     dof |-> 0, criticalValue |-> FZero, isUniform |-> FALSE]

\* numbers one per decile: in the middle of each, and at the start of each
ChiDeciles ==
    { <<50, 150, 250, 350, 450, 550, 650, 750, 850, 950>>,
      <<900, 0, 300, 100, 700, 200, 500, 400, 600, 800>> }
\* numbers in [0, 1] with 1.0 and one side of 1/3, and one beyond 1
ChiDecimals == {0, 333, 500, 1000, 1200}
ChiLists == UNION {[1..n -> ChiDecimals] : n \in 0..MaxChiNumbers}
\* (numbers, k) of the calls of calculateChiSquare: short lists over up to
\* three intervals, and ten intervals over the deciles, over ten numbers
\* of one decile and over three short lists
ChiCalls ==
    {<<d, k>> : d \in ChiLists \cup ChiDeciles, k \in {0, 1, 2, 3}}
    \cup {<<d, 10>> : d \in ChiDeciles \cup {<<>>, <<1000>>, <<333, 1200>>,
                                              [i \in 1..10 |-> 500]}}
TestAlphas == {50, 10}
\* how far Math.pow may be from the nearest double, in units in the last place
PowUlps == {-1, 0, 1}

\* calculateChiSquare up to its loop
ChiSquareCall ==
    /\ test.pc = "call" /\ test.fn = "calculateChiSquare"
    /\ LET N == Len(test.numbers)
       IN  test' = [test EXCEPT !.pc = "loop", !.N = N,
                                !.Ei = FDivInt(FromInt(N), test.k)]
    /\ UNCHANGED <<tb, ss, ssRun, ms, msRun, inv, invRun, rng, earlier>>

\* one pass of the loop of calculateChiSquare
ChiSquareInterval ==
    /\ test.pc = "loop" /\ test.fn = "calculateChiSquare"
    /\ test.i < test.k
    /\ LET i == test.i
           start == FDivInt(FromInt(i), test.k)
           end == FDivInt(FromInt(i + 1), test.k)
           oi == Cardinality({j \in 1..Len(test.numbers) :
                                ChiCounted(test.numbers[j], start, end, i = test.k - 1)})
           chiPart == FDiv(MathPowSquare(FSub(FromInt(oi), test.Ei), test.powUlps), test.Ei)
       IN  test' = [test EXCEPT
                      !.chiStat = FAdd(@, chiPart),
                      !.intervals = Append(@, [start |-> start, end |-> end, oi |-> oi,
                                               ei |-> test.Ei, chiPart |-> chiPart]),
                      !.i = @ + 1]
    /\ UNCHANGED <<tb, ss, ssRun, ms, msRun, inv, invRun, rng, earlier>>

\* calculateChiSquare after its loop
ChiSquareReturn ==
    /\ test.pc = "loop" /\ test.fn = "calculateChiSquare"
    /\ test.i >= test.k
    /\ LET dof == test.k - 1
           criticalValue == getChiSquareCriticalValue(dof, test.alpha)
       IN  test' = [test EXCEPT !.pc = "returned", !.dof = dof,
                                !.criticalValue = criticalValue,
                                !.isUniform = ChiDecision(test.chiStat, criticalValue)]
    /\ UNCHANGED <<tb, ss, ssRun, ms, msRun, inv, invRun, rng, earlier>>

\* the calls of getChiSquareCriticalValue on its own: df and alpha thousandths
CriticalValueCalls == {<<df, a>> : df \in 0..9, a \in {50, 10, 980}}

\* getChiSquareCriticalValue
CriticalValueReturn ==
    /\ test.pc = "call" /\ test.fn = "getChiSquareCriticalValue"
    /\ LET inverseOf == ChiCriticalInverseOf(test.df, test.alpha)
       IN  test' = [test EXCEPT
                      !.pc = "returned",
                      !.inverseOf = inverseOf,
                      !.branch = IF inverseOf = <<>> THEN "none"
                                 ELSE getNormInverseBranch(inverseOf[1]),
                      !.value = getChiSquareCriticalValue(test.df, test.alpha)]
    /\ UNCHANGED <<tb, ss, ssRun, ms, msRun, inv, invRun, rng, earlier>>

RECURSIVE FSumTo(_, _)
\* let sum = 0; for (i < j) sum += xs[i]
FSumTo(xs, j) == IF j = 0 THEN FZero ELSE FAdd(FSumTo(xs, j - 1), xs[j])

\* sumSqDiff: the sum of Math.pow(numbers[i] - mean, 2)
DepSquares(numbers, mean, powUlps) ==
    FSumTo([i \in 1..Len(numbers) |-> MathPowSquare(FSub(numbers[i], mean), powUlps)],
           Len(numbers))

\* the sample variance, 0 for fewer than two numbers
DepVariance(numbers, mean, powUlps) ==
    LET n == Len(numbers)
    IN  IF n > 1 THEN FDivInt(DepSquares(numbers, mean, powUlps), n - 1) ELSE FZero

\* covSum of lag k
DepCovSum(numbers, mean, k) ==
    FSumTo([i \in 1..(Len(numbers) - k) |->
              FMul(FSub(numbers[i], mean), FSub(numbers[i + k], mean))],
           Len(numbers) - k)

\* r_k = (1 / (n - k)) * (covSum / variance), 0 for a variance of 0
DepCorrelation(numbers, mean, variance, k) ==
    IF variance # FZero
    THEN FMul(FDivInt(FromInt(1), Len(numbers) - k),
              FDiv(DepCovSum(numbers, mean, k), variance))
    ELSE FZero

\* the arguments, locals and result of a call of calculateDependency
DependencyFrame(decimals, alpha, powUlps) ==
    [fn |-> "calculateDependency", decimals |-> decimals, numbers |-> NumbersOf(decimals),
     alpha |-> alpha, powUlps |-> powUlps, pc |-> "call", k |-> 1,
     n |-> 0, mean |-> FZero, variance |-> FZero, correlations |-> <<>>,
     avgAbsCorrelation |-> FZero, isIndependent |-> FALSE]

DepDecimals == {100, 500, 900}
DepLists == UNION {[1..n -> DepDecimals] : n \in 0..MaxDepNumbers}

\* calculateDependency up to the loop over the lags
DependencyCall ==
    /\ test.pc = "call" /\ test.fn = "calculateDependency"
    /\ LET n == Len(test.numbers)
           mean == FDivInt(FSumTo(test.numbers, n), n)
       IN  test' = [test EXCEPT !.pc = "loop", !.n = n, !.mean = mean,
                                !.variance = DepVariance(test.numbers, mean, test.powUlps)]
    /\ UNCHANGED <<tb, ss, ssRun, ms, msRun, inv, invRun, rng, earlier>>

\* one pass of the loop over the lags
DependencyLag ==
    /\ test.pc = "loop" /\ test.fn = "calculateDependency"
    /\ test.k < test.n
    /\ LET r_k == DepCorrelation(test.numbers, test.mean, test.variance, test.k)
       IN  test' = [test EXCEPT !.correlations = Append(@, [k |-> test.k, value |-> r_k]),
                                !.k = @ + 1]
    /\ UNCHANGED <<tb, ss, ssRun, ms, msRun, inv, invRun, rng, earlier>>

\* calculateDependency after the loop
DependencyReturn ==
    /\ test.pc = "loop" /\ test.fn = "calculateDependency"
    /\ test.k >= test.n
    /\ LET count == Len(test.correlations)
           sumAbs == FSumTo([j \in 1..count |-> FAbs(test.correlations[j].value)], count)
       IN  test' = [test EXCEPT !.pc = "returned",
                                !.avgAbsCorrelation =
                                   IF count > 0 THEN FDivInt(sumAbs, count) ELSE FZero,
                                !.isIndependent = TRUE]
    /\ UNCHANGED <<tb, ss, ssRun, ms, msRun, inv, invRun, rng, earlier>>

InitTests ==
    /\ test \in {ChiSquareFrame(c[1], c[2], alpha, u) :
                    c \in ChiCalls, alpha \in TestAlphas, u \in PowUlps}
                \cup {DependencyFrame(d, 50, u) : d \in DepLists, u \in PowUlps}
                \cup {[fn |-> "getChiSquareCriticalValue", pc |-> "call",
                       df |-> c[1], alpha |-> c[2],
                       inverseOf |-> <<>>, branch |-> "none", value |-> FZero] :
                        c \in CriticalValueCalls}
    /\ tb = Unmounted
    /\ ss = Unmounted /\ ssRun = Unmounted
    /\ ms = Unmounted /\ msRun = Unmounted
    /\ inv = Unmounted /\ invRun = Unmounted
    /\ rng = Unmounted /\ earlier = Unmounted

NextTests ==
    \/ ChiSquareCall \/ ChiSquareInterval \/ ChiSquareReturn
    \/ DependencyCall \/ DependencyLag \/ DependencyReturn
    \/ CriticalValueReturn

SpecTests == InitTests /\ [][NextTests]_vars

(***************************************************************************)
(* Claims about the generators (SpecRng).                                  *)
(***************************************************************************)
LcgReturned == rng.fn = "lcg" /\ rng.pc = "returned"

\* x_0 = z0 and x_n = numbers[n]
LcgX(n) == IF n = 0 THEN rng.seed ELSE rng.numbers[n]

\* C17: for m > 0, lcg(z0, a, c, m, count) returns exactly count numbers
\* x_1..x_count with x_0 = z0 and x_{n+1} = (a * x_n + c) mod m; the seed
\* is not part of the output.
C17_LcgRecurrence ==
    (LcgReturned /\ rng.m > 0) =>
      /\ rng.error = NoError
      /\ Len(rng.numbers) = Max(rng.count, 0)
      /\ \A n \in 1..Len(rng.numbers) :
           rng.numbers[n] = (rng.a * LcgX(n - 1) + rng.c) % rng.m

\* what does hold: the same when no a * x_n + c is negative, and in general
\* with the remainder that has the sign of a * x_n + c
C17_LcgRecurrenceSigned ==
    (LcgReturned /\ rng.m > 0) =>
      /\ rng.error = NoError
      /\ Len(rng.numbers) = Max(rng.count, 0)
      /\ \A n \in 1..Len(rng.numbers) :
           LET y == rng.a * LcgX(n - 1) + rng.c
           IN  /\ y >= 0 => rng.numbers[n] = y % rng.m
               /\ y < 0 => rng.numbers[n] = 0 - ((0 - y) % rng.m)

\* ten numbers whose first is not the seed
C17_WitnessNonNegative ==
    /\ LcgReturned /\ rng.m = 5 /\ rng.seed = 7 /\ rng.a = 3 /\ rng.c = 1
    /\ Len(rng.numbers) = 10 /\ rng.numbers[1] = 2 /\ rng.numbers[2] = 2

\* the numbers X repeat with a period of at most m: equal numbers are
\* followed by equal numbers, two occurrences of a number with none between
\* them lie at most m apart, and among the first 2m numbers one occurs twice
LcgEventuallyPeriodic(X, m) ==
    /\ \A i, j \in 1..Len(X) :
         (i < j /\ X[i] = X[j]) =>
           /\ j < Len(X) => X[i + 1] = X[j + 1]
           /\ (\A k \in (i + 1)..(j - 1) : X[k] # X[i]) => j - i <= m
    /\ Len(X) >= 2 * m =>
         \E i, j \in 1..(2 * m) : i < j /\ j - i <= m /\ X[i] = X[j]

\* C18: for m > 0 and any a, c and seed, the numbers x_1, x_2, ... the lcg
\* loop produces are eventually periodic with a period of at most m.
C18_LcgPeriodAtMostM ==
    (rng.fn = "lcg" /\ rng.pc \in {"loop", "returned"} /\ rng.m > 0) =>
      LcgEventuallyPeriodic(rng.nums, rng.m)

\* a run with the full period 5
C18_Witness ==
    /\ LcgReturned /\ rng.m = 5 /\ Len(rng.numbers) = 10
    /\ Cardinality({rng.numbers[n] : n \in 1..5}) = 5
    /\ \A n \in 1..5 : rng.numbers[n + 5] = rng.numbers[n]

\* a run that is periodic only after its first numbers
C18_WitnessPreperiod ==
    /\ LcgReturned /\ rng.m = 5 /\ Len(rng.numbers) = 10
    /\ \A n \in 2..10 : rng.numbers[n] # rng.numbers[1]
    /\ \A n \in 3..10 : rng.numbers[n] # rng.numbers[2]
    /\ \E p \in 2..5 : \A n \in 3..(10 - p) : rng.numbers[n + p] = rng.numbers[n]

\* lcg called with m <= 0
LcgRejected == rng.fn = "lcg" /\ rng.m <= 0

\* C19: lcg called with m <= 0 returns an error and an empty number list
\* and generates no value, whatever the seed, a, c and count.
C19_LcgRejectsModulus ==
    LcgRejected =>
      /\ rng.pc # "loop" /\ rng.nums = <<>> /\ rng.i = 0 /\ rng.current = rng.seed
      /\ rng.pc = "returned" => (rng.error # NoError /\ rng.numbers = <<>>)

\* m = 0 and m < 0 with ten numbers asked for
C19_Witness ==
    /\ rng.fn = "lcg" /\ rng.pc = "returned" /\ rng.m = 0 /\ rng.count = MaxGen
    /\ rng.error = "Modulus m must be > 0" /\ rng.numbers = <<>>

C19_WitnessNegative ==
    /\ rng.fn = "lcg" /\ rng.pc = "returned" /\ rng.m < 0 /\ rng.count = MaxGen
    /\ rng.error = "Modulus m must be > 0" /\ rng.numbers = <<>>

\* C20: once middleSquare has emitted 0 every later value of the run is
\* 0; the run raises no error, never goes back to the seed, and returns
\* exactly count values.
C20_MidSquareStaysAtZero ==
    rng.fn = "middleSquare" =>
      /\ \A i, j \in 1..Len(rng.nums) : (i < j /\ rng.nums[i] = Big(0)) => rng.nums[j] = Big(0)
      /\ rng.current = (IF rng.nums = <<>> THEN rng.seed ELSE rng.nums[Len(rng.nums)])
      /\ rng.error = NoError
      /\ rng.pc = "returned" =>
           (rng.numbers = rng.nums /\ Len(rng.numbers) = Max(rng.count, 0))

\* seed 12 with two digits: 14, 19, 36, 29, 84, 5, 2, then 0 three times
C20_Witness ==
    /\ rng.fn = "middleSquare" /\ rng.pc = "returned"
    /\ rng.seed = Big(12) /\ rng.digits = 2 /\ rng.count = 10
    /\ rng.numbers = <<Big(14), Big(19), Big(36), Big(29), Big(84), Big(5), Big(2),
                       Big(0), Big(0), Big(0)>>

\* seed 10 with four digits: 1, then 0
C20_WitnessFourDigits ==
    /\ rng.fn = "middleSquare" /\ rng.pc = "returned"
    /\ rng.seed = Big(10) /\ rng.digits = 4 /\ rng.count = 2
    /\ rng.numbers = <<Big(1), Big(0)>>

(***************************************************************************)
(* Claims about the frame and the rows of the multi-server loop            *)
(* (SpecMulti).                                                            *)
(***************************************************************************)
MSRowIdle(r, s) == IF s = 1 THEN r.idle1 ELSE r.idle2
MSRunEnd(run, s) == IF s = 1 THEN run.server1End ELSE run.server2End

\* a pass of the loop body that appended a row
MSRowAppended ==
    /\ msRun.pc = "loop" /\ msRun'.pc = "loop"
    /\ msRun'.i = msRun.i + 1

\* the clocks and idle values of the pass that served the customer of row
\* r, between run frames before and after
MSFrameOK(before, after, r) ==
    LET used == r.serverUsed
        other == 3 - used
        prevEnd == MSRunEnd(before, used)
    IN  /\ used \in {1, 2}
        /\ MSRunEnd(after, other) = MSRunEnd(before, other)
        /\ MSRunEnd(after, used) = MSRowEnd(r)
        /\ MSRowIdle(r, other) = 0
        /\ MSRowIdle(r, used) = (IF r.arrival >= prevEnd THEN r.arrival - prevEnd ELSE 0)
        /\ (r.arrival < prevEnd) => r.waiting = prevEnd - r.arrival

\* C26: a customer step sets the end clock of the selected server only;
\* the other server's end clock is unchanged and its idle value in the row
\* is 0; the selected server's idle value is arrival minus its previous end
\* clock when it was idle at the arrival and 0 when the customer waited.
C26_FrameAndIdleAccrual ==
    [][MSRowAppended => MSFrameOK(msRun, msRun', msRun'.table[Len(msRun'.table)])]_vars

\* a server that served before and was idle for a while takes the customer
C26_Witness ==
    /\ msRun.pc = "loop"
    /\ Len(msRun.table) = 3
    /\ msRun.table[1].serverUsed = msRun.table[3].serverUsed
    /\ msRun.table[2].serverUsed # msRun.table[3].serverUsed
    /\ MSRowIdle(msRun.table[3], msRun.table[3].serverUsed) > 0

\* the customer had to wait for the selected server
C26_WitnessWaited ==
    /\ msRun.pc = "loop"
    /\ Len(msRun.table) = 3
    /\ msRun.table[3].waiting > 0
    /\ msRun.table[3].idle1 = 0 /\ msRun.table[3].idle2 = 0

\* the second server, idle since the start, takes its first customer
C26_WitnessSecond ==
    /\ msRun.pc = "loop"
    /\ Len(msRun.table) = 2
    /\ msRun.table[1].serverUsed = 1
    /\ msRun.table[2].serverUsed = 2
    /\ msRun.table[2].idle2 = msRun.table[2].arrival
    /\ msRun.table[2].idle2 > 0

\* the three fields of server s in a row
MSRowFields(r, s) ==
    IF s = 1 THEN <<r.service1, r.serviceStart1, r.serviceEnd1>>
    ELSE <<r.service2, r.serviceStart2, r.serviceEnd2>>

\* row k of a ledger built from the service digits and the two service
\* tables
MSRowShapeOK(r, k, serviceNums, service1Rows, service2Rows) ==
    LET used == r.serverUsed
        own == IF used = 1 THEN service1Rows ELSE service2Rows
        mine == MSRowFields(r, used)
    IN  /\ used \in {1, 2}
        /\ \A f \in 1..3 : ~IsNull(mine[f])
        /\ MSRowFields(r, 3 - used) = <<Null, Null, Null>>
        /\ r.randService = serviceNums[k]
        /\ mine[1] = FirstRowValue(own, r.randService)
        /\ Val(mine[3]) = Val(mine[2]) + Val(mine[1])

\* C27: every ledger row names one serving server, 1 or 2; that server's
\* service time, service start and service end are filled and the other
\* server's three fields are null; the filled service time is the row's
\* one service digit looked up in the serving server's own table.
C27_LedgerRows ==
    /\ msRun.pc = "loop" =>
         \A k \in 1..Len(msRun.table) :
            MSRowShapeOK(msRun.table[k], k, parseDigits(ms.serviceDigits),
                         msRun.service1Res.rows, msRun.service2Res.rows)
    /\ \A k \in 1..Len(ms.simRows) :
         MSRowShapeOK(ms.simRows[k], k, parseDigits(ms.serviceDigits),
                      ms.service1Table, ms.service2Table)

\* a published ledger with both servers used, the same digit giving the
\* two servers different service times
C27_Witness ==
    /\ Len(ms.simRows) = 2
    /\ ms.simRows[1].serverUsed # ms.simRows[2].serverUsed
    /\ ms.simRows[1].randService = ms.simRows[2].randService
    /\ MSRowFields(ms.simRows[1], ms.simRows[1].serverUsed)[1]
         # MSRowFields(ms.simRows[2], ms.simRows[2].serverUsed)[1]

(***************************************************************************)
(* Claims about the arrival date of a review order (SpecInventory).        *)
(***************************************************************************)
\* a pass of the day loop that placed an order
InvOrderEnqueued ==
    /\ invRun.pc = "loop" /\ invRun'.pc = "loop"
    /\ invRun'.leadTimeIndex = invRun.leadTimeIndex + 1

\* the order o enqueued by the review of row r, days days in a cycle
InvDateOK(r, o, days) ==
    LET t == (r.cycle - 1) * days + r.day
        L == Val(r.daysUntilArrival)
    IN  /\ L >= 0
        /\ 1 <= o.arrivalDay /\ o.arrivalDay <= days
        /\ (o.arrivalCycle - 1) * days + o.arrivalDay = t + L + 1
        /\ o.quantity = Val(r.orderQuantity)

\* C28: the order enqueued by a review on absolute day
\* t = (cycle - 1) * daysPerCycle + day with lead time L >= 0 has
\* 1 <= arrivalDay <= daysPerCycle and
\* (arrivalCycle - 1) * daysPerCycle + arrivalDay = t + L + 1.
C28_ArrivalDateConversion ==
    [][InvOrderEnqueued =>
         /\ Len(invRun'.pendingOrders) >= 1
         /\ InvDateOK(invRun'.table[Len(invRun'.table)],
                      invRun'.pendingOrders[Len(invRun'.pendingOrders)],
                      invRun.days)]_vars

\* an order placed at the end of a two-day cycle with lead time 1: the
\* absolute arrival day is a multiple of the cycle length
C28_Witness ==
    /\ invRun.pc = "loop" /\ invRun.days = 2
    /\ Len(invRun.table) = 2 /\ Len(invRun.pendingOrders) >= 1
    /\ invRun.table[2].daysUntilArrival = Some(1)
    /\ ~IsNull(invRun.table[2].randLeadTime)
    /\ invRun.pendingOrders[Len(invRun.pendingOrders)].arrivalCycle = 2
    /\ invRun.pendingOrders[Len(invRun.pendingOrders)].arrivalDay = 2

\* one-day cycles: the order of cycle 1 with lead time 0 arrives in cycle 2
C28_WitnessOneDayCycle ==
    /\ invRun.pc = "loop" /\ invRun.days = 1
    /\ Len(invRun.table) = 1 /\ Len(invRun.pendingOrders) >= 1
    /\ invRun.table[1].daysUntilArrival = Some(0)
    /\ ~IsNull(invRun.table[1].randLeadTime)
    /\ invRun.pendingOrders[Len(invRun.pendingOrders)].arrivalCycle = 2
    /\ invRun.pendingOrders[Len(invRun.pendingOrders)].arrivalDay = 1

(***************************************************************************)
(* Claims about the step of middleSquare (SpecRng).                        *)
(***************************************************************************)
\* the value before the n-th emitted one
MidSquareBefore(n) == IF n = 1 THEN rng.seed ELSE rng.nums[n - 1]

\* the whole number written by the d characters from position d \div 2 of
\* the exact square of v, written in decimal and padded to 2 * d characters
MidSquareMiddle(v, d) ==
    LET sq == BigMul(v, v)
        padded == Zeros(Max(2 * d - Len(sq), 0)) \o sq
        start == d \div 2
    IN  BigTrim(SubSeq(padded, start + 1, Min(start + d, Len(padded))))

\* a whole number below 10^d
BelowPow10(x, d) == x # BigNaN /\ Len(BigTrim(x)) <= d

\* C29: each emitted value is the whole number formed by the d characters
\* from position floor(d / 2) of the square of the value before it,
\* written in decimal and left-padded with zeros to 2 * d characters, and
\* is the next value squared; for a seed below 10^d every emitted value is
\* below 10^d.
C29_MidSquareStep ==
    rng.fn = "middleSquare" =>
      /\ rng.current = (IF rng.nums = <<>> THEN rng.seed ELSE rng.nums[Len(rng.nums)])
      /\ \A n \in 1..Len(rng.nums) :
            /\ MidSquareBefore(n) # BigNaN
            /\ rng.nums[n] = MidSquareMiddle(MidSquareBefore(n), rng.digits)
            /\ BelowPow10(rng.seed, rng.digits) => BelowPow10(rng.nums[n], rng.digits)

\* what holds: the statement of C29 for the steps whose square is below
\* 2^53, where the square is exact and written in plain decimal
C29_MidSquareStepExact ==
    rng.fn = "middleSquare" =>
      /\ rng.current = (IF rng.nums = <<>> THEN rng.seed ELSE rng.nums[Len(rng.nums)])
      /\ \A n \in 1..Len(rng.nums) :
            LET v == MidSquareBefore(n)
            IN  (v # BigNaN /\ BigLess(BigMul(v, v), Two53)) =>
                  /\ rng.nums[n] = MidSquareMiddle(v, rng.digits)
                  /\ BelowPow10(v, rng.digits) => BelowPow10(rng.nums[n], rng.digits)

\* seed 1234 with four digits: 5227, 3215
C29_WitnessExact ==
    /\ rng.fn = "middleSquare" /\ rng.pc = "returned"
    /\ rng.seed = Big(1234) /\ rng.digits = 4 /\ rng.count = 2
    /\ rng.numbers = <<Big(5227), Big(3215)>>

\* a twelve-digit seed below 10^13 whose first value is not a number
C29_WitnessNaN ==
    /\ rng.fn = "middleSquare" /\ rng.pc = "returned"
    /\ rng.digits = 13 /\ BelowPow10(rng.seed, 13) /\ rng.count = 1
    /\ rng.numbers = <<BigNaN>>

\* a nine-digit seed whose square is rounded: the value ends in 89 where
\* the exact square gives 90
C29_WitnessRounded ==
    /\ rng.fn = "middleSquare" /\ rng.pc = "returned"
    /\ rng.seed = Big(840403000) /\ rng.digits = 9 /\ rng.count = 1
    /\ rng.numbers = <<Big(772024089)>>
    /\ MidSquareMiddle(rng.seed, 9) = Big(772024090)

(***************************************************************************)
(* Claims about normalizeValues (SpecRng).                                 *)
(***************************************************************************)
NormReturned == rng.fn = "normalizeValues" /\ rng.pc = "returned"

\* floor(n / d) for d > 0
FloorDiv(n, d) == IF n >= 0 THEN n \div d ELSE 0 - ((d - 1 - n) \div d)

\* v * scaleTo / sourceMax rounded to the nearest whole number, halves up
NormExact(v, scaleTo, sourceMax) == FloorDiv(2 * v * scaleTo + sourceMax, 2 * sourceMax)

\* v * scaleTo / sourceMax is a whole number and a half
NormAtHalf(v, scaleTo, sourceMax) == (2 * v * scaleTo) % (2 * sourceMax) = sourceMax

\* C30: normalizeValues returns, for each v, round((v / sourceMax) * scaleTo)
\* with halves rounded up, keeps length and order, and for 0 <= v <
\* sourceMax yields a whole number in 0..scaleTo.
C30_NormalizeRoundsHalfUp ==
    NormReturned =>
      /\ Len(rng.result) = Len(rng.values)
      /\ \A i \in 1..Len(rng.values) :
            /\ rng.result[i] = NormExact(rng.values[i], rng.scaleTo, rng.sourceMax)
            /\ (0 <= rng.values[i] /\ rng.values[i] < rng.sourceMax)
                  => rng.result[i] \in 0..rng.scaleTo

\* what holds: length, order and range as stated; the value is the stated
\* one except at an exact half, where it is the stated one or one less
C30_NormalizeExceptAtHalves ==
    NormReturned =>
      /\ Len(rng.result) = Len(rng.values)
      /\ \A i \in 1..Len(rng.values) :
            LET exact == NormExact(rng.values[i], rng.scaleTo, rng.sourceMax)
            IN  /\ rng.result[i] \in {exact, exact - 1}
                /\ rng.result[i] # exact
                      => NormAtHalf(rng.values[i], rng.scaleTo, rng.sourceMax)
                /\ (0 <= rng.values[i] /\ rng.values[i] < rng.sourceMax)
                      => rng.result[i] \in 0..rng.scaleTo

\* 37.5 gives 38 and 37.4 gives 37
C30_WitnessStated ==
    /\ NormReturned /\ rng.scaleTo = 100 /\ rng.sourceMax = 10000
    /\ rng.values = <<3750, 3740>> /\ rng.result = <<38, 37>>

\* 1450 of 10000 to a scale of 100 is 14.5 and gives 14
C30_WitnessHalfDown ==
    /\ NormReturned /\ rng.scaleTo = 100 /\ rng.sourceMax = 10000
    /\ rng.values = <<1450>> /\ rng.result = <<14>>

(***************************************************************************)
(* Claims about calculateChiSquare (SpecTests).                            *)
(***************************************************************************)
ChiRunning == test.fn = "calculateChiSquare" /\ test.pc # "call"
ChiReturned == test.fn = "calculateChiSquare" /\ test.pc = "returned"

\* every number handed over is in [0, 1]
ChiInUnit == \A j \in 1..Len(test.decimals) : test.decimals[j] \in 0..1000

\* d thousandths lie in [i/k, (i+1)/k), or in [i/k, 1] for the last interval
InInterval(d, i, k) ==
    /\ i * 1000 <= d * k
    /\ IF i = k - 1 THEN d * k <= (i + 1) * 1000 ELSE d * k < (i + 1) * 1000

\* the double x is N / k, or lies between the whole numbers around N / k
IsExpected(x, N, k) ==
    IF N % k = 0 THEN x = FromInt(N \div k)
    ELSE FLess(FromInt(N \div k), x) /\ FLess(x, FromInt(N \div k + 1))

RECURSIVE SumOi(_, _)
SumOi(intervals, j) == IF j = 0 THEN 0 ELSE SumOi(intervals, j - 1) + intervals[j].oi

\* the number x is within interval j as recorded
WithinRecorded(x, intervals, j) ==
    /\ ~FLess(x, intervals[j].start)
    /\ IF j = Len(intervals) THEN ~FLess(intervals[j].end, x) ELSE FLess(x, intervals[j].end)

\* C22: for k >= 1 and numbers in [0, 1], interval i counts the numbers of
\* [i/k, (i+1)/k), the last one with 1.0, each number is within exactly
\* one interval, the observed counts sum to N and each expected count is
\* N / k.
C22_ChiIntervalCounting ==
    (ChiRunning /\ test.k >= 1 /\ ChiInUnit) =>
      /\ test.N = Len(test.decimals)
      /\ \A j \in 1..Len(test.intervals) :
            /\ test.intervals[j].oi =
                  Cardinality({x \in 1..test.N : InInterval(test.decimals[x], j - 1, test.k)})
            /\ test.N > 0 => IsExpected(test.intervals[j].ei, test.N, test.k)
      /\ test.pc = "returned" =>
            /\ Len(test.intervals) = test.k
            /\ SumOi(test.intervals, test.k) = test.N
            /\ \A x \in 1..test.N :
                  Cardinality({j \in 1..test.k :
                                 WithinRecorded(test.numbers[x], test.intervals, j)}) = 1

\* 1.0 and 0.333 over three intervals: 0.333 in the first, 1.0 in the last
C22_Witness ==
    /\ ChiReturned /\ test.k = 3 /\ test.decimals = <<1000, 333>>
    /\ [j \in 1..3 |-> test.intervals[j].oi] = <<1, 0, 1>>

\* ten numbers on the starts of the ten deciles
C22_WitnessBoundaries ==
    /\ ChiReturned /\ test.k = 10
    /\ test.decimals = <<900, 0, 300, 100, 700, 200, 500, 400, 600, 800>>
    /\ \A j \in 1..10 : test.intervals[j].oi = 1

\* x < y for doubles that are not negative, by their exact values
ValueLess(x, y) ==
    /\ ~FIsNaN(x) /\ ~FIsNaN(y)
    /\ LET e == Min(x.e, y.e)
       IN  BigLess(BigTimesPow2(x.m, x.e - e), BigTimesPow2(y.m, y.e - e))

\* C23: calculateChiSquare reports uniform exactly when chiStat is
\* strictly below criticalValue, with df = k - 1; ten numbers one per
\* decile with k = 10 and alpha = 0.05 give chiStat = 0 and uniform.
C23_ChiDecision ==
    ChiReturned =>
      /\ test.dof = test.k - 1
      /\ test.isUniform <=> ValueLess(test.chiStat, test.criticalValue)
      /\ (test.decimals \in ChiDeciles /\ test.k = 10 /\ test.alpha = 50)
            => (test.chiStat = FZero /\ test.isUniform)

\* the deciles
C23_Witness ==
    /\ ChiReturned /\ test.k = 10 /\ test.alpha = 50
    /\ test.decimals = <<50, 150, 250, 350, 450, 550, 650, 750, 850, 950>>
    /\ test.dof = 9 /\ test.chiStat = FZero /\ test.isUniform
    /\ ValueLess(FromInt(16), test.criticalValue)

\* one interval: the statistic and the critical value are both 0, and the
\* numbers are not reported uniform
C23_WitnessEqual ==
    /\ ChiReturned /\ test.k = 1 /\ test.decimals = <<500, 1000>>
    /\ test.chiStat = FZero /\ test.criticalValue = FZero /\ ~test.isUniform

\* ten numbers of one decile: the statistic is 90
C23_WitnessRejected ==
    /\ ChiReturned /\ test.k = 10 /\ test.alpha = 50
    /\ test.decimals = [i \in 1..10 |-> 500]
    /\ test.chiStat = FromInt(90) /\ ~test.isUniform

(***************************************************************************)
(* Claims about calculateDependency (SpecTests).                           *)
(***************************************************************************)
DepReturned == test.fn = "calculateDependency" /\ test.pc = "returned"

\* the two-tailed normal critical value in millionths
ZCriticalMillionths(alpha) == IF alpha = 50 THEN 1959964 ELSE 2575829

\* |Z_k| > z_critical(alpha) for Z_k = r * sqrt(N): r^2 * N > z^2, on the
\* exact value of the double r
LagFlagged(r, N, alpha) ==
    /\ ~FIsZero(r) /\ ~FIsNaN(r)
    /\ LET lhs == BigMulSmall(BigMul(r.m, r.m), N) \o Zeros(12)
           z == Big(ZCriticalMillionths(alpha))
           z2 == BigMul(z, z)
       IN  IF r.e >= 0 THEN BigLess(z2, BigTimesPow2(lhs, 2 * r.e))
           ELSE BigLess(BigTimesPow2(z2, 0 - 2 * r.e), lhs)

\* C24: the test evaluates every lag k = 1..N-1 and reports independence
\* exactly when no lag has |Z_k| > z_critical(alpha), Z_k = r_k * sqrt(N).
C24_AutocorrelationDecision ==
    (DepReturned /\ test.n >= 1) =>
      /\ Len(test.correlations) = test.n - 1
      /\ \A j \in 1..Len(test.correlations) : test.correlations[j].k = j
      /\ test.isIndependent <=>
            \A j \in 1..Len(test.correlations) :
               ~LagFlagged(test.correlations[j].value, test.n, test.alpha)

\* what holds: every lag k = 1..N-1 is evaluated, none is tested against a
\* critical value, and independence is reported whatever the correlations
C24_EveryLagNoDecision ==
    (DepReturned /\ test.n >= 1) =>
      /\ Len(test.correlations) = test.n - 1
      /\ \A j \in 1..Len(test.correlations) : test.correlations[j].k = j
      /\ test.isIndependent

\* 0.1, 0.5, 0.5, 0.9: r_3 is about -1.5 and Z_3 about -3, and independence
\* is reported
C24_WitnessFlaggedLag ==
    /\ DepReturned /\ test.decimals = <<100, 500, 500, 900>>
    /\ test.correlations[3].value.neg
    /\ LagFlagged(test.correlations[3].value, 4, test.alpha)
    /\ test.isIndependent

\* all the numbers are equal
DepConstant == \A j \in 1..Len(test.decimals) : test.decimals[j] = test.decimals[1]

\* C25: for a constant sequence of N >= 2 numbers the variance is 0, every
\* r_k is reported as 0, the average absolute correlation is 0 and the test
\* reports independence.
C25_ConstantSequence ==
    (DepReturned /\ test.n >= 2 /\ DepConstant) =>
      /\ test.variance = FZero
      /\ Len(test.correlations) = test.n - 1
      /\ \A j \in 1..Len(test.correlations) : test.correlations[j].value = FZero
      /\ test.avgAbsCorrelation = FZero
      /\ test.isIndependent

\* what holds: the same when the mean computed is the number itself; and
\* r_k is a number whenever it is computed
C25_ConstantWithExactMean ==
    (DepReturned /\ test.n >= 2) =>
      /\ (DepConstant /\ test.mean = test.numbers[1]) =>
            /\ test.variance = FZero
            /\ \A j \in 1..Len(test.correlations) : test.correlations[j].value = FZero
            /\ test.avgAbsCorrelation = FZero
      /\ \A j \in 1..Len(test.correlations) : test.correlations[j].value.m # <<>>
      /\ test.isIndependent

\* 0.5 three times: the mean is 0.5 and everything is 0
C25_WitnessZero ==
    /\ DepReturned /\ test.decimals = <<500, 500, 500>>
    /\ test.variance = FZero /\ test.avgAbsCorrelation = FZero

\* 0.1 three times: the mean is not 0.1, the variance is not 0 and r_1 and
\* r_2 are 2/3 to the last place
C25_WitnessNotZero ==
    /\ DepReturned /\ test.decimals = <<100, 100, 100>>
    /\ test.mean # test.numbers[1] /\ test.variance # FZero
    /\ \A j \in 1..2 :
          /\ FLess(FromDecimal(666, 1000), test.correlations[j].value)
          /\ FLess(test.correlations[j].value, FromDecimal(667, 1000))
    /\ FLess(FromDecimal(666, 1000), test.avgAbsCorrelation)

(***************************************************************************)
(* A second run on the same inputs.  What a run leaves behind is the state *)
(* of its page, error and published tables included; its locals are gone. *)
(* earlier holds what the first run returned, for the second to be         *)
(* compared with.                                                          *)
(***************************************************************************)
\* what a run of a simulator shows
SSOutput == [error |-> ss.error, arrivalTable |-> ss.arrivalTable, serviceTable |-> ss.serviceTable, simRows |-> ss.simRows]
MSOutput == [error |-> ms.error, arrivalTable |-> ms.arrivalTable, service1Table |-> ms.service1Table, service2Table |-> ms.service2Table, simRows |-> ms.simRows]
InvOutput == [error |-> inv.error, demandTable |-> inv.demandTable, leadTimeTable |-> inv.leadTimeTable, simRows |-> inv.simRows]

\* what a call of a generator returns
RngOutput ==
    IF rng.fn = "normalizeValues" THEN [result |-> rng.result]
    ELSE [numbers |-> rng.numbers, error |-> rng.error]

\* the same call of the generator once more
RngSameCall ==
    IF rng.fn = "lcg" THEN RngCall("lcg", rng.seed, rng.a, rng.c, rng.m, 0, rng.count)
    ELSE IF rng.fn = "middleSquare" THEN MiddleSquareFrame(rng.seed, rng.digits, rng.count)
    ELSE NormalizeFrame(rng.values, rng.scaleTo, rng.sourceMax)

\* Run Simulation is clicked again on the single-server page
SSRunAgain ==
    /\ Mounted(ss) /\ ssRun.pc = "returned" /\ earlier = <<>>
    /\ earlier' = <<SSOutput>>
    /\ ssRun' = SSIdle
    /\ UNCHANGED <<tb, ss, ms, msRun, inv, invRun, rng, test>>

\* Run Simulation is clicked again on the multi-server page
MSRunAgain ==
    /\ Mounted(ms) /\ msRun.pc = "returned" /\ earlier = <<>>
    /\ earlier' = <<MSOutput>>
    /\ msRun' = MSIdle
    /\ UNCHANGED <<tb, ss, ssRun, ms, inv, invRun, rng, test>>

\* Run Simulation is clicked again on the inventory page
InvRunAgain ==
    /\ Mounted(inv) /\ invRun.pc = "returned" /\ earlier = <<>>
    /\ earlier' = <<InvOutput>>
    /\ invRun' = InvIdle
    /\ UNCHANGED <<tb, ss, ssRun, ms, msRun, inv, rng, test>>

\* the generator is called again with the same arguments
RngCallAgain ==
    /\ Mounted(rng) /\ rng.pc = "returned" /\ earlier = <<>>
    /\ earlier' = <<RngOutput>>
    /\ rng' = RngSameCall
    /\ UNCHANGED <<tb, ss, ssRun, ms, msRun, inv, invRun, test>>

InitTwice == InitSimulators \/ InitRng

NextTwice ==
    \/ NextSimulators
    \/ Mounted(rng) /\ NextRng
    \/ SSRunAgain
    \/ MSRunAgain
    \/ InvRunAgain
    \/ RngCallAgain

SpecTwice == InitTwice /\ [][NextTwice]_vars

C21_WitnessSingle ==
    /\ earlier # <<>> /\ Mounted(ss) /\ ssRun.pc = "returned"
    /\ Len(ss.simRows) = MaxCount /\ earlier[1].simRows = ss.simRows

\* a second multi-server run that failed as the first did
C21_WitnessMultiFailed ==
    /\ earlier # <<>> /\ Mounted(ms) /\ msRun.pc = "returned"
    /\ ms.error # NoError /\ earlier[1].error = ms.error

\* a second call of lcg, of middleSquare and of normalizeValues
C21_WitnessLcg ==
    /\ earlier # <<>> /\ Mounted(rng) /\ rng.pc = "returned"
    /\ rng.fn = "lcg" /\ Len(rng.numbers) = MaxGen /\ earlier[1].numbers = rng.numbers

C21_WitnessMiddleSquare ==
    /\ earlier # <<>> /\ Mounted(rng) /\ rng.pc = "returned"
    /\ rng.fn = "middleSquare" /\ Len(rng.numbers) = 2 /\ earlier[1].numbers = rng.numbers

C21_WitnessNormalize ==
    /\ earlier # <<>> /\ Mounted(rng) /\ rng.pc = "returned"
    /\ rng.fn = "normalizeValues" /\ Len(rng.result) = MaxValues
    /\ earlier[1].result = rng.result

(***************************************************************************)
(* The summary of the single-server ledger.                                *)
(***************************************************************************)
RECURSIVE SumField(_, _, _)
\* rows.reduce((acc, r) => acc + r[field], 0) over the first n rows
SumField(rows, field, n) == IF n = 0 THEN 0 ELSE SumField(rows, field, n - 1) + rows[n][field]

\* the summary with its percentages taken against the last service start
SSSummary_OverLastStart(simRows) ==
    LET n == Len(simRows)
        lastStart == simRows[n].serviceStart
        percent(total) == IF lastStart = 0 THEN FZero
                          ELSE FMul(FDiv(FromInt(total), FromInt(lastStart)), FromInt(100))
    IN  IF n = 0 THEN Null
        ELSE Some([avgWaiting |-> FDiv(FromInt(SumField(simRows, "waiting", n)), FromInt(n)),
                   avgService |-> FDiv(FromInt(SumField(simRows, "service", n)), FromInt(n)),
                   idlePercent |-> percent(SumField(simRows, "idle", n)),
                   utilization |-> percent(SumField(simRows, "service", n))])

\* summary: null without rows; the idle of a row is never negative, so
\* Math.max(r.idle, 0) is r.idle
SSSummary(simRows) ==
    LET n == Len(simRows)
        lastEnd == simRows[n].serviceEnd
        percent(total) == IF lastEnd = 0 THEN FZero
                          ELSE FMul(FDiv(FromInt(total), FromInt(lastEnd)), FromInt(100))
    IN  IF n = 0 THEN Null
        ELSE Some([avgWaiting |-> FDiv(FromInt(SumField(simRows, "waiting", n)), FromInt(n)),
                   avgService |-> FDiv(FromInt(SumField(simRows, "service", n)), FromInt(n)),
                   idlePercent |-> percent(SumField(simRows, "idle", n)),
                   utilization |-> percent(SumField(simRows, "service", n))])

(***************************************************************************)
(* Claims about the time account of the single server (SpecSingle).        *)
(***************************************************************************)
\* the time account of the first i rows of a ledger
SSConservedAt(T, i) ==
    /\ SumField(T, "idle", i) + SumField(T, "service", i) = T[i].serviceEnd
    /\ T[i].idle >= 0 /\ T[i].waiting >= 0
    /\ ~(T[i].waiting > 0 /\ T[i].idle > 0)

SSConserved ==
    /\ ssRun.pc = "loop" => \A i \in 1..Len(ssRun.table) : SSConservedAt(ssRun.table, i)
    /\ \A i \in 1..Len(ss.simRows) : SSConservedAt(ss.simRows, i)

SSPercentSum == LET s == Val(SSSummary(ss.simRows)) IN FAdd(s.idlePercent, s.utilization)

SSLastEndPositive == ss.simRows # <<>> /\ ss.simRows[Len(ss.simRows)].serviceEnd > 0

\* the doubles next to 100 and 100 itself
NearHundred(x) ==
    LET h == FromInt(100)
    IN  /\ ~x.neg /\ x.e = h.e
        /\ x.m \in {BigSub(h.m, <<1>>), h.m, BigAdd(h.m, <<1>>)}

C33_WitnessThirds ==
    /\ Len(ss.simRows) = 2 /\ ss.simRows[2].serviceEnd = 3
    /\ ss.simRows[2].idle = 1
    /\ FLess(SSPercentSum, FromInt(100))

\* a ledger whose percentages add up to 100 exactly
C33_WitnessExact ==
    /\ SSLastEndPositive
    /\ \E j \in 1..Len(ss.simRows) : ss.simRows[j].idle > 0
    /\ SSPercentSum = FromInt(100)

(***************************************************************************)
(* Claims about the service starts of the two servers (SpecMulti).         *)
(***************************************************************************)
MSStartRuleAt(T, k) ==
    LET a == T[k].arrival
        e1 == MSEndBefore(T, k, 1)
        e2 == MSEndBefore(T, k, 2)
        start == MSRowStart(T[k])
    IN  /\ start = Max(a, Min(e1, e2))
        /\ k > 1 => start >= MSRowStart(T[k - 1])
        /\ T[k].waiting >= 0
        /\ start >= MSEndBefore(T, k, T[k].serverUsed)

\* C34: with non-negative interarrival and service values, every customer's
\* service start is max(arrival, min(server1End, server2End)) taken before
\* its assignment; service starts never decrease from one customer to the
\* next, waiting is never negative, and a customer starts no earlier than
\* the previous end of the server that serves it.
C34_MultiServerStart ==
    /\ msRun.pc = "loop" =>
         /\ msRun.server1End = MSEndBefore(msRun.table, Len(msRun.table) + 1, 1)
         /\ msRun.server2End = MSEndBefore(msRun.table, Len(msRun.table) + 1, 2)
         /\ \A k \in 1..Len(msRun.table) : MSStartRuleAt(msRun.table, k)
    /\ \A k \in 1..Len(ms.simRows) : MSStartRuleAt(ms.simRows, k)

\* a third customer who finds both servers busy until different times and
\* starts when the first of them is free
C34_Witness ==
    /\ Len(ms.simRows) = 3
    /\ ms.simRows[3].waiting > 0
    /\ MSEndBefore(ms.simRows, 3, 1) # MSEndBefore(ms.simRows, 3, 2)
    /\ MSRowStart(ms.simRows[3]) = Min(MSEndBefore(ms.simRows, 3, 1), MSEndBefore(ms.simRows, 3, 2))

\* a customer who starts at its arrival, later than both ends
C34_WitnessArrival ==
    /\ Len(ms.simRows) = 3
    /\ ms.simRows[3].arrival > MSEndBefore(ms.simRows, 3, 1)
    /\ ms.simRows[3].arrival > MSEndBefore(ms.simRows, 3, 2)
    /\ MSEndBefore(ms.simRows, 3, 1) > 0 /\ MSEndBefore(ms.simRows, 3, 2) > 0

(***************************************************************************)
(* The summary of the multi-server ledger.                                 *)
(***************************************************************************)
\* the summary with every service time counted for both servers
MSSummary_EveryService(simRows) ==
    LET n == Len(simRows)
        service(r) == IF r.serverUsed = 1 THEN Val(r.service1) ELSE Val(r.service2)
        sum[j \in 0..n] == IF j = 0 THEN [waiting |-> 0, service |-> 0, idle1 |-> 0, idle2 |-> 0,
                                          lastEnd |-> 0, count1 |-> 0, count2 |-> 0]
                           ELSE LET r == simRows[j]
                                    p == sum[j - 1]
                                IN  [waiting |-> p.waiting + r.waiting,
                                     service |-> p.service + service(r),
                                     idle1 |-> p.idle1 + Max(r.idle1, 0),
                                     idle2 |-> p.idle2 + Max(r.idle2, 0),
                                     lastEnd |-> Max(p.lastEnd, MSRowEnd(r)),
                                     count1 |-> p.count1 + (IF IsNull(r.serviceStart1) THEN 0 ELSE 1),
                                     count2 |-> p.count2 + (IF IsNull(r.serviceStart2) THEN 0 ELSE 1)]
        t == sum[n]
        ratio(a, b) == IF b = 0 THEN FZero ELSE FDivInt(FromInt(a), b)
        percent(total) == IF t.lastEnd = 0 THEN FZero
                          ELSE FMul(FDivInt(FromInt(total), t.lastEnd), FromInt(100))
    IN  IF n = 0 THEN Null
        ELSE Some([avgWaiting |-> FDivInt(FromInt(t.waiting), n),
                   avgService1 |-> ratio(t.service, t.count1),
                   avgService2 |-> ratio(t.service, t.count2),
                   idlePercent1 |-> percent(t.idle1),
                   idlePercent2 |-> percent(t.idle2),
                   utilization1 |-> percent(t.service),
                   utilization2 |-> percent(t.service)])

\* summary: null without rows; the totals of each server are taken over the
\* rows it served and lastEnd is the later of the two last service ends
MSSummary(simRows) ==
    LET n == Len(simRows)
        sum[j \in 0..n] == IF j = 0 THEN [waiting |-> 0, service1 |-> 0, service2 |-> 0,
                                          idle1 |-> 0, idle2 |-> 0,
                                          lastEnd1 |-> 0, lastEnd2 |-> 0,
                                          count1 |-> 0, count2 |-> 0]
                           ELSE LET r == simRows[j]
                                    p == sum[j - 1]
                                    orZero(v) == IF IsNull(v) THEN 0 ELSE Val(v)
                                IN  [waiting |-> p.waiting + r.waiting,
                                     service1 |-> p.service1 + (IF IsNull(r.serviceStart1) THEN 0
                                                                ELSE orZero(r.service1)),
                                     service2 |-> p.service2 + (IF IsNull(r.serviceStart2) THEN 0
                                                                ELSE orZero(r.service2)),
                                     idle1 |-> p.idle1 + Max(r.idle1, 0),
                                     idle2 |-> p.idle2 + Max(r.idle2, 0),
                                     lastEnd1 |-> Max(p.lastEnd1, orZero(r.serviceEnd1)),
                                     lastEnd2 |-> Max(p.lastEnd2, orZero(r.serviceEnd2)),
                                     count1 |-> p.count1 + (IF IsNull(r.serviceStart1) THEN 0 ELSE 1),
                                     count2 |-> p.count2 + (IF IsNull(r.serviceStart2) THEN 0 ELSE 1)]
        t == sum[n]
        lastEnd == Max(t.lastEnd1, t.lastEnd2)
        ratio(a, b) == IF b = 0 THEN FZero ELSE FDivInt(FromInt(a), b)
        percent(total) == IF lastEnd = 0 THEN FZero
                          ELSE FMul(FDivInt(FromInt(total), lastEnd), FromInt(100))
    IN  IF n = 0 THEN Null
        ELSE Some([avgWaiting |-> FDivInt(FromInt(t.waiting), n),
                   avgService1 |-> ratio(t.service1, t.count1),
                   avgService2 |-> ratio(t.service2, t.count2),
                   idlePercent1 |-> percent(t.idle1),
                   idlePercent2 |-> percent(t.idle2),
                   utilization1 |-> percent(t.service1),
                   utilization2 |-> percent(t.service2)])

(***************************************************************************)
(* Claims about the time account of the two servers (SpecMulti).           *)
(***************************************************************************)
RECURSIVE MSAccount(_, _, _)
\* the idle times recorded for server s plus the service times of the
\* customers s served, over the first k rows
MSAccount(T, k, s) ==
    IF k = 0 THEN 0
    ELSE MSAccount(T, k - 1, s)
         + (IF s = 1 THEN T[k].idle1 ELSE T[k].idle2)
         + (IF T[k].serverUsed # s THEN 0
            ELSE IF s = 1 THEN Val(T[k].service1) ELSE Val(T[k].service2))

MSConserved ==
    /\ msRun.pc = "loop" =>
         /\ MSAccount(msRun.table, Len(msRun.table), 1) = msRun.server1End
         /\ MSAccount(msRun.table, Len(msRun.table), 2) = msRun.server2End
    /\ \A k \in 0..Len(ms.simRows) : \A s \in {1, 2} :
         MSAccount(ms.simRows, k, s) = MSEndBefore(ms.simRows, k + 1, s)

\* idle percentage + utilization of each server, as doubles
MSPercentSums ==
    LET m == Val(MSSummary(ms.simRows))
    IN  <<FAdd(m.idlePercent1, m.utilization1), FAdd(m.idlePercent2, m.utilization2)>>

C35_WitnessBelow ==
    /\ ms.simRows # <<>>
    /\ \E j \in 1..Len(ms.simRows) : ms.simRows[j].idle1 > 0
    /\ \E j \in 1..Len(ms.simRows) : ms.simRows[j].serverUsed = 2
    /\ FLess(MSPercentSums[1], FromInt(100))
    /\ FLess(FromInt(0), MSPercentSums[2])

(***************************************************************************)
(* The single server and the two servers on the same inputs: both pages    *)
(* are given the same arrival table and digits, and both server tables of  *)
(* the multi-server page are the service table of the single-server page.  *)
(***************************************************************************)
InitPair ==
    /\ \E a \in SSArrivalDists, s \in SSServiceDists, c \in 1..MaxCount, p \in {1, 2},
          ad \in [1..(MaxCount - 1) -> {10, 50, 90}], sd \in [1..MaxCount -> {10, 90}] :
         /\ ss = [arrivalRows |-> a, serviceRows |-> s,
                  arrivalDigits |-> ad, serviceDigits |-> sd,
                  customerCount |-> c,
                  arrivalTable |-> <<>>, serviceTable |-> <<>>,
                  simRows |-> <<>>, error |-> NoError]
         /\ ms = [arrivalRows |-> a, service1Rows |-> s, service2Rows |-> s,
                  arrivalDigits |-> ad, serviceDigits |-> sd,
                  customerCount |-> c, priorityServer |-> p,
                  arrivalTable |-> <<>>, service1Table |-> <<>>, service2Table |-> <<>>,
                  simRows |-> <<>>, error |-> NoError]
    /\ ssRun = SSIdle /\ msRun = MSIdle
    /\ tb = Unmounted
    /\ inv = Unmounted /\ invRun = Unmounted
    /\ rng = Unmounted
    /\ test = Unmounted /\ earlier = Unmounted

NextPair == NextSingle \/ NextMulti

SpecPair == InitPair /\ [][NextPair]_vars

(***************************************************************************)
(* Claims about the two simulators on the same inputs (SpecPair).          *)
(***************************************************************************)
\* the rows a run has computed so far
SSRowsSoFar == IF ssRun.pc = "loop" THEN ssRun.table ELSE ss.simRows
MSRowsSoFar == IF msRun.pc = "loop" THEN msRun.table ELSE ms.simRows

\* C36: on the same arrival table, arrival digits and service digits, with
\* both server tables equal to the single-server service table and no
\* negative time value, every customer waits no longer with two servers
\* than with one, whichever server has priority.
C36_TwoServersWaitNoLonger ==
    /\ \A k \in 1..Min(Len(SSRowsSoFar), Len(MSRowsSoFar)) :
         /\ MSRowsSoFar[k].arrival = SSRowsSoFar[k].arrival
         /\ MSRowsSoFar[k].waiting <= SSRowsSoFar[k].waiting
    /\ (ssRun.pc = "returned" /\ msRun.pc = "returned") =>
         /\ Len(ms.simRows) = Len(ss.simRows)
         /\ (ms.error = NoError) <=> (ss.error = NoError)

\* three customers published by both: the third waits for the single server
\* and waits less, but still waits, for the two servers
C36_Witness ==
    /\ Len(ss.simRows) = 3 /\ Len(ms.simRows) = 3
    /\ ms.simRows[3].waiting > 0
    /\ ms.simRows[3].waiting < ss.simRows[3].waiting

\* the second customer waits for the single server and not at all for the
\* two servers, under priority 2
C36_WitnessSecond ==
    /\ Len(ss.simRows) >= 2 /\ Len(ms.simRows) >= 2
    /\ ms.priorityServer = 2
    /\ ss.simRows[2].waiting > 0 /\ ms.simRows[2].waiting = 0

(***************************************************************************)
(* Claims about the stock account of the inventory simulator               *)
(* (SpecInventory).                                                        *)
(***************************************************************************)
\* the ledger a run has built so far
InvRowsSoFar == IF invRun.pc = "loop" THEN invRun.table ELSE inv.simRows

InvSignsAt(T, k) ==
    /\ T[k].endingInventory >= 0
    /\ T[k].shortage >= 0
    /\ T[k].shortage > 0 => T[k].endingInventory = 0

\* C37: with initial inventory >= 0, no negative demand value and positive
\* order quantities, after every simulated day endingInventory >= 0 and the
\* accumulated shortage >= 0, and they are never both positive.
C37_InventorySigns ==
    /\ \A k \in 1..Len(InvRowsSoFar) : InvSignsAt(InvRowsSoFar, k)
    /\ invRun.pc = "loop" => invRun.inventory >= 0

\* a published ledger with a day that ends with stock, a later day that
\* ends with a backlog, and an order that arrived
C37_Witness ==
    /\ inv.error = NoError /\ Len(inv.simRows) >= 3
    /\ \E j, k \in 1..Len(inv.simRows) :
         /\ j < k
         /\ inv.simRows[j].endingInventory > 0
         /\ inv.simRows[k].shortage > 0
    /\ \E k \in 1..Len(inv.simRows) : InvArrivals(inv.simRows, k) > 0

RECURSIVE InvNetArrivals(_, _)
\* what reached on-hand inventory up to day k, less the demand drawn
InvNetArrivals(T, k) ==
    IF k = 0 THEN 0 ELSE InvNetArrivals(T, k - 1) + InvArrivals(T, k) - T[k].demand

RECURSIVE InvQuantities(_, _)
InvQuantities(orders, n) == IF n = 0 THEN 0 ELSE InvQuantities(orders, n - 1) + orders[n].quantity

RECURSIVE InvOrdered(_, _)
\* the quantities of the orders enqueued by the reviews of the first k days
InvOrdered(T, k) ==
    IF k = 0 THEN 0
    ELSE InvOrdered(T, k - 1) + (IF InvPlaced(T, k) THEN Val(T[k].orderQuantity) ELSE 0)

\* C38: after every simulated day, initial inventory + the quantities of
\* the orders that have arrived so far - the demand drawn so far =
\* endingInventory - accumulated shortage; the orders that have arrived are
\* the orders put in the pending list less those still in it.
C38_StockConservation ==
    /\ \A k \in 1..Len(InvRowsSoFar) :
         inv.initialInventory + InvNetArrivals(InvRowsSoFar, k)
           = InvRowsSoFar[k].endingInventory - InvRowsSoFar[k].shortage
    /\ (invRun.pc = "loop" /\ invRun.table # <<>>) =>
         LET T == invRun.table
             n == Len(T)
             initial == InvInitialOrders(inv.initialOrderQuantity, inv.initialOrderLeadTime)
             arrived == InvQuantities(initial, Len(initial)) + InvOrdered(T, n)
                          - InvQuantities(invRun.pendingOrders, Len(invRun.pendingOrders))
         IN  /\ invRun.inventory = T[n].endingInventory
             /\ inv.initialInventory + arrived - SumField(T, "demand", n)
                  = T[n].endingInventory - T[n].shortage

\* a published ledger with a backlog carried over a day, paid by an order
\* that arrived
C38_Witness ==
    /\ inv.error = NoError /\ Len(inv.simRows) >= 3
    /\ \E k \in 2..Len(inv.simRows) :
         /\ inv.simRows[k - 1].shortage > 0
         /\ InvArrivals(inv.simRows, k) > 0
         /\ inv.simRows[k].demand > 0

\* a run in its loop with an order of a review pending and one arrived
C38_WitnessPending ==
    /\ invRun.pc = "loop" /\ Len(invRun.table) >= 3
    /\ invRun.pendingOrders # <<>>
    /\ \E k \in 1..Len(invRun.table) : InvReviewArrivals(invRun.table, k - 1, k) > 0

\* the lead times of the table all fit within a cycle, the stock starts
\* within the limit and no initial order is put in the pending list
InvWithinCycle ==
    /\ inv.initialInventory <= inv.inventoryLimit
    /\ InvInitialOrders(inv.initialOrderQuantity, inv.initialOrderLeadTime) = <<>>
    /\ \A j \in 1..Len(inv.demandRows) : inv.demandRows[j].value >= 0
    /\ \A j \in 1..Len(inv.leadTimeRows) :
         /\ inv.leadTimeRows[j].value >= 0
         /\ inv.leadTimeRows[j].value <= inv.daysPerCycle - 1

\* C39: if the initial inventory is within the inventory limit, no initial
\* order is injected, no demand value is negative and every lead-time value
\* L has 0 <= L <= daysPerCycle - 1, then at most one order is pending at
\* any moment and the endingInventory of every day is within the limit.
C39_InventoryLimitBound ==
    InvWithinCycle =>
      /\ invRun.pc = "loop" => Len(invRun.pendingOrders) <= 1
      /\ \A k \in 1..Len(InvRowsSoFar) :
           InvRowsSoFar[k].endingInventory <= inv.inventoryLimit

\* a run whose first review order arrived on the next review day, raising
\* the stock, before the second order was enqueued
C39_Witness ==
    /\ InvWithinCycle
    /\ invRun.pc = "loop" /\ Len(invRun.table) = 4
    /\ InvPlaced(invRun.table, 2) /\ InvDueDay(invRun.table, 2) = 4
    /\ InvArrivals(invRun.table, 4) > 0
    /\ Len(invRun.pendingOrders) = 1

\* a lead time longer than the cycle leaves two orders pending
C39_WitnessLongLead ==
    /\ ~InvWithinCycle
    /\ invRun.pc = "loop"
    /\ Len(invRun.pendingOrders) = 2

\* an initial order takes the stock over the limit
C39_WitnessOverLimit ==
    /\ ~InvWithinCycle
    /\ \E k \in 1..Len(inv.simRows) : inv.simRows[k].endingInventory > inv.inventoryLimit

(***************************************************************************)
(* A run after a change of the inputs: the number of customers (of cycles  *)
(* on the inventory page) is typed anew once a run has returned, earlier   *)
(* keeps what the page showed then, and Run Simulation is clicked again.   *)
(***************************************************************************)
\* the onChange of "Number of customers" on the single-server page
SSSetCustomerCount ==
    /\ Mounted(ss) /\ ssRun.pc = "returned" /\ earlier = <<>>
    /\ \E num \in 0..MaxCount : ss' = [ss EXCEPT !.customerCount = num]
    /\ earlier' = <<SSOutput>>
    /\ ssRun' = SSIdle
    /\ UNCHANGED <<tb, ms, msRun, inv, invRun, rng, test>>

\* the onChange of "Number of customers" on the multi-server page
MSSetCustomerCount ==
    /\ Mounted(ms) /\ msRun.pc = "returned" /\ earlier = <<>>
    /\ \E num \in 0..MaxCount : ms' = [ms EXCEPT !.customerCount = num]
    /\ earlier' = <<MSOutput>>
    /\ msRun' = MSIdle
    /\ UNCHANGED <<tb, ss, ssRun, inv, invRun, rng, test>>

\* the onChange of "Number of cycles" on the inventory page
InvSetNumCycles ==
    /\ Mounted(inv) /\ invRun.pc = "returned" /\ earlier = <<>>
    /\ \E num \in 0..MaxCycles : inv' = [inv EXCEPT !.numCycles = num]
    /\ earlier' = <<InvOutput>>
    /\ invRun' = InvIdle
    /\ UNCHANGED <<tb, ss, ssRun, ms, msRun, rng, test>>

NextEdited ==
    \/ NextSimulators
    \/ SSSetCustomerCount
    \/ MSSetCustomerCount
    \/ InvSetNumCycles

SpecEdited == InitSimulators /\ [][NextEdited]_vars

(***************************************************************************)
(* Claims about what a run leaves on the page (SpecEdited).                *)
(***************************************************************************)
\* what the page showed before the run: nothing before the first run
ShownBefore(empty) == IF earlier = <<>> THEN empty ELSE earlier[1]

SSShownBefore ==
    ShownBefore([error |-> NoError, arrivalTable |-> <<>>, serviceTable |-> <<>>, simRows |-> <<>>])

MSShownBefore ==
    ShownBefore([error |-> NoError, arrivalTable |-> <<>>, service1Table |-> <<>>,
                 service2Table |-> <<>>, simRows |-> <<>>])

InvShownBefore ==
    ShownBefore([error |-> NoError, demandTable |-> <<>>, leadTimeTable |-> <<>>, simRows |-> <<>>])

\* a run of a page: nothing changes before it returns; a failure sets the
\* error alone; a success clears the error and shows the tables and the
\* ledger of this run
RunLeaves(pc, output, before, tables, rowCount) ==
    IF pc # "returned" THEN output = before
    ELSE IF output.error # NoError THEN output = [before EXCEPT !.error = output.error]
    ELSE /\ \A f \in DOMAIN tables : output[f] = tables[f]
         /\ Len(output.simRows) = rowCount
         /\ rowCount > 0

\* C40: a failing run of the single-server, multi-server or inventory
\* simulator leaves the ledger and the cumulative tables published before
\* it unchanged and sets only the error; a run that succeeds clears the
\* error and replaces the ledger and the tables together.
C40_FailedRunKeepsResults ==
    /\ Mounted(ss) =>
         RunLeaves(ssRun.pc, SSOutput, SSShownBefore,
                   [arrivalTable |-> buildCumulative(ss.arrivalRows, 100).rows,
                    serviceTable |-> buildCumulative(ss.serviceRows, 100).rows],
                   ss.customerCount)
    /\ Mounted(ms) =>
         RunLeaves(msRun.pc, MSOutput, MSShownBefore,
                   [arrivalTable |-> buildCumulative(ms.arrivalRows, 100).rows,
                    service1Table |-> buildCumulative(ms.service1Rows, 100).rows,
                    service2Table |-> buildCumulative(ms.service2Rows, 100).rows],
                   ms.customerCount)
    /\ Mounted(inv) =>
         RunLeaves(invRun.pc, InvOutput, InvShownBefore,
                   [demandTable |-> buildCumulative(inv.demandRows, 100).rows,
                    leadTimeTable |-> buildCumulative(inv.leadTimeRows, 10).rows],
                   inv.numCycles * inv.daysPerCycle)

\* a single-server run that failed inside its loop after a run that had
\* published a ledger
C40_Witness ==
    /\ Mounted(ss) /\ earlier # <<>> /\ ssRun.pc = "returned"
    /\ earlier[1].error = NoError /\ earlier[1].simRows # <<>>
    /\ ss.error = "Random digit could not be mapped to a time. Check tables."
    /\ ss.simRows = earlier[1].simRows /\ ss.arrivalTable # <<>>

\* a multi-server and an inventory run that failed after a published one
C40_WitnessMulti ==
    /\ Mounted(ms) /\ earlier # <<>> /\ msRun.pc = "returned"
    /\ earlier[1].simRows # <<>> /\ ms.error # NoError
    /\ ms.simRows = earlier[1].simRows

C40_WitnessInventory ==
    /\ Mounted(inv) /\ earlier # <<>> /\ invRun.pc = "returned"
    /\ earlier[1].simRows # <<>> /\ inv.error # NoError
    /\ inv.simRows = earlier[1].simRows

\* a run that succeeded after a failed one, and one that replaced a ledger
C40_WitnessCleared ==
    /\ Mounted(ss) /\ earlier # <<>> /\ ssRun.pc = "returned"
    /\ earlier[1].error # NoError /\ earlier[1].simRows = <<>>
    /\ ss.error = NoError /\ ss.simRows # <<>>

C40_WitnessReplaced ==
    /\ Mounted(inv) /\ earlier # <<>> /\ invRun.pc = "returned"
    /\ earlier[1].simRows # <<>> /\ inv.error = NoError
    /\ Len(inv.simRows) # Len(earlier[1].simRows)

(***************************************************************************)
(* Claims about the degrees of freedom of the chi-square test (SpecTests). *)
(***************************************************************************)
\* C32: for every interval count k >= 1, which is what the page accepts,
\* getChiSquareCriticalValue is called with df >= 1, so that its fallback
\* for df < 1, a critical value of 0, is never taken.
C32_FallbackNeverTaken ==
    (ChiReturned /\ test.k >= 1) =>
      /\ test.dof >= 1
      /\ test.criticalValue # FZero

\* what holds: df is k - 1, the fallback is taken for k = 1 and only then,
\* and a test with one interval never reports uniformity
C32_FallbackForOneInterval ==
    (ChiReturned /\ test.k >= 1) =>
      /\ test.dof = test.k - 1
      /\ test.k >= 2 => FLess(FZero, test.criticalValue)
      /\ test.k = 1 => (test.criticalValue = FZero /\ ~test.isUniform)

\* one interval over numbers of [0, 1): the statistic is 0, the critical
\* value is the fallback, and the numbers are reported as not uniform
C32_WitnessOneInterval ==
    /\ ChiReturned /\ test.k = 1 /\ test.N = 2
    /\ \A j \in 1..test.N : test.decimals[j] < 1000
    /\ test.dof = 0 /\ test.criticalValue = FZero
    /\ test.chiStat = FZero /\ ~test.isUniform

C32_WitnessTwoIntervals ==
    /\ ChiReturned /\ test.k = 2 /\ test.dof = 1 /\ test.isUniform

(***************************************************************************)
(* Claims about the critical value of the chi-square test (SpecTests).     *)
(* The stated forms are evaluated in doubles from the standard normal      *)
(* quantiles and natural logarithms, given to six decimals.                *)
(***************************************************************************)
\* the argument of the inverse normal in 1/2000: 1 - alpha/2 for df = 1 and
\* 1 - alpha for df >= 3
StatedProbability(df, alpha) == IF df = 1 THEN 2000 - alpha ELSE 2000 - 2 * alpha

\* the standard normal quantile of p / 2000, in millionths
StatedQuantile(p) ==
    CASE p = 1950 -> 1959964
      [] p = 1990 -> 2575829
      [] p = 1020 -> 25069
      [] p = 1900 -> 1644854
      [] p = 1980 -> 2326348
      [] p = 40 -> -2053749

\* ln(alpha), in millionths
StatedLn(alpha) ==
    CASE alpha = 50 -> -2995732
      [] alpha = 10 -> -4605170
      [] alpha = 980 -> -20203

\* sqrt(2 / (9 df)) for df = 3..9, in units of 10^-8
StatedRoot(df) ==
    <<27216553, 23570226, 21081851, 19245009, 17817416, 16666667, 15713484>>[df - 2]

FClose(x, y, millionths) == FLessEq(FAbs(FSub(x, y)), FromDecimal(millionths, 1000000))

\* the value of the form stated for df >= 1
StatedCriticalValue(df, alpha) ==
    LET z == FromDecimal(StatedQuantile(StatedProbability(df, alpha)), 1000000)
    IN  IF df = 1 THEN FMul(z, z)
        ELSE IF df = 2 THEN FMul(FromInt(-2), FromDecimal(StatedLn(alpha), 1000000))
        ELSE LET root == FromDecimal(StatedRoot(df), 100000000)
                 term == FAdd(FSub(FromInt(1), FDivInt(FromInt(2), 9 * df)), FMul(z, root))
             IN  FMul(FromInt(df), FMul(FMul(term, term), term))

\* the branch of the inverse normal stated for the probability p / 2000
StatedBranch(p) ==
    IF p * 100000 < 2425 * 2000 THEN "lower"
    ELSE IF p * 100000 > 97575 * 2000 THEN "upper"
    ELSE "central"

CriticalReturned == test.fn = "getChiSquareCriticalValue" /\ test.pc = "returned"

C31_WitnessUpper ==
    /\ CriticalReturned /\ test.df = 1 /\ test.alpha = 10
    /\ test.branch = "upper"

C31_WitnessExponential ==
    /\ CriticalReturned /\ test.df = 2 /\ test.alpha = 50
    /\ test.branch = "none"
    /\ FClose(test.value, FromDecimal(5991465, 1000000), 1)

C31_WitnessLower ==
    /\ CriticalReturned /\ test.df = 4 /\ test.alpha = 980
    /\ test.branch = "lower"

\* a chi-square test with ten intervals, nine degrees of freedom
C31_WitnessTest ==
    /\ ChiReturned /\ test.k = 10 /\ test.dof = 9 /\ test.N = 10

====
